---- MODULE Spec2Model ----
(***************************************************************************)
(* A model of bfg9000's ninja backend: the NinjaFile build-graph IR        *)
(* (variables, rules, build edges, default targets, the minimum-version   *)
(* watermark) and the Commands object, from                                *)
(* src/bfg9000/backends/ninja/syntax.py.                                   *)
(*                                                                         *)
(* Strings whose characters matter (variable and rule names) are sequences *)
(* of one-character strings; opaque strings (values, outputs, inputs) are  *)
(* TLA+ strings.  A call that raises leaves its message class in last.err. *)
(***************************************************************************)
EXTENDS Naturals, Sequences, FiniteSets, TLC

VARIABLES
    min_version,    \* NinjaFile._min_version: NoVersion or <<major, minor>>
    var_table,      \* NinjaFile._var_table: set of Variable identities (names)
    variables,      \* NinjaFile._variables: section -> sequence of <<name, value>>
    rules,          \* NinjaFile._rules: OrderedDict, as a sequence of [name, rule]
    builds,         \* NinjaFile._builds: sequence of Build tuples
    build_outputs,  \* NinjaFile._build_outputs: set of output identities
    defaults,       \* NinjaFile._defaults: sequence of paths
    obj,            \* a Commands object under construction/inspection
    last,           \* the last call: its operation, arguments, error and return value
    requested,      \* history: every version passed to min_version() so far
    stream          \* Writer.stream: the text written so far, as characters

vars == <<min_version, var_table, variables, rules, builds, build_outputs,
          defaults, obj, last, requested, stream>>

----------------------------------------------------------------------------
(* Characters and names                                                    *)

Lower == {"a", "b", "c", "d", "e", "f", "g", "h", "i", "j", "k", "l", "m",
          "n", "o", "p", "q", "r", "s", "t", "u", "v", "w", "x", "y", "z"}
Upper == {"A", "B", "C", "D", "E", "F", "G", "H", "I", "J", "K", "L", "M",
          "N", "O", "P", "Q", "R", "S", "T", "U", "V", "W", "X", "Y", "Z"}
Digits == {"0", "1", "2", "3", "4", "5", "6", "7", "8", "9"}

\* The regular expression class \w (ASCII): [A-Za-z0-9_].
IsWordChar(c) == c \in Lower \cup Upper \cup Digits \cup {"_"}

\* All strings over alphabet of length k, and of length at most n.
RECURSIVE StringsOfLen(_, _)
StringsOfLen(alphabet, k) ==
    IF k = 0 THEN {<<>>}
    ELSE {Append(s, c) : s \in StringsOfLen(alphabet, k - 1), c \in alphabet}

StringsUpTo(alphabet, n) == UNION {StringsOfLen(alphabet, k) : k \in 0..n}

\* re.search('\W', name): does some character of name fall outside \w?
ReSearchNonWord_NoScan(name) == Len(name) > 0 /\ ~IsWordChar(name[1])
ReSearchNonWord(name) == \E i \in 1..Len(name) : ~IsWordChar(name[i])

\* re.sub('\W', '_', name): every non-word character replaced by '_'.
ReSubNonWord_Identity(name) == name
ReSubNonWord(name) ==
    [i \in 1..Len(name) |-> IF IsWordChar(name[i]) THEN name[i] ELSE "_"]

\* Variable(name).name, and var(v): a Variable is identified by its
\* normalized name (Variable.__eq__ and __hash__ compare .name).
Var(name) == ReSubNonWord(name)

----------------------------------------------------------------------------
(* Values that stand for Python's None, and the enumerations               *)

NoVersion == <<>>
NoPool == "<None>"
NoValue == "<None>"

\* Section = Enum('Section', ['path', 'command', 'flags', 'other'])
Sections == <<"path", "command", "flags", "other">>
SectionSet == {Sections[i] : i \in 1..Len(Sections)}

\* The synthetic rule every ninja file knows.
Phony == <<"p", "h", "o", "n", "y">>

\* The string-like values Writer.write tells apart (safe_str.literal,
\* safe_str.shell_literal, a plain string, safe_str.jbos, path.Path): s is
\* the text (the suffix of a path), bits the parts of a jbos, root the
\* symbolic root of a path.
Literal(s) == [t |-> "literal", s |-> s, bits |-> <<>>, root |-> ""]
ShellLiteral(s) == [t |-> "shell_literal", s |-> s, bits |-> <<>>, root |-> ""]
PlainStr(s) == [t |-> "str", s |-> s, bits |-> <<>>, root |-> ""]
Jbos(bits) == [t |-> "jbos", s |-> <<>>, bits |-> bits, root |-> ""]
Path(s, root) == [t |-> "path", s |-> s, bits |-> <<>>, root |-> root]

\* The shape of last; a call fills in the fields it uses.
NoCall ==
    [op |-> "init", name |-> <<>>, value |-> NoValue, section |-> "other",
     exist_ok |-> TRUE, pool |-> NoPool, outs |-> <<>>, ver |-> NoVersion,
     err |-> "", ret |-> <<>>, retb |-> FALSE,
     thing |-> Literal(<<>>), syntax |-> "", platform |-> ""]

----------------------------------------------------------------------------
(* Versions: Version(string) and its ordering                              *)

DigitValue(c) ==
    CASE c = "0" -> 0 [] c = "1" -> 1 [] c = "2" -> 2 [] c = "3" -> 3
      [] c = "4" -> 4 [] c = "5" -> 5 [] c = "6" -> 6 [] c = "7" -> 7
      [] c = "8" -> 8 [] c = "9" -> 9

\* Version('1.10') is the release tuple <<1, 10>>: the dot-separated
\* components read as decimal numbers.  acc is the component being read.
RECURSIVE ParseRelease(_, _, _)
ParseRelease(s, i, acc) ==
    IF i > Len(s) THEN <<acc>>
    ELSE IF s[i] = "." THEN <<acc>> \o ParseRelease(s, i + 1, 0)
    ELSE ParseRelease(s, i + 1, acc * 10 + DigitValue(s[i]))

Version(s) == ParseRelease(s, 1, 0)

\* Version.__gt__: release tuples compare component by component.
RECURSIVE ReleaseGT(_, _, _)
ReleaseGT(a, b, i) ==
    IF i > Len(a) THEN FALSE
    ELSE IF i > Len(b) THEN TRUE
    ELSE IF a[i] # b[i] THEN a[i] > b[i]
    ELSE ReleaseGT(a, b, i + 1)

VersionGT(a, b) == ReleaseGT(a, b, 1)

\* min_version(): the new value of _min_version.
MinVersionAfter_Overwrite(current, version) == version
MinVersionAfter(current, version) ==
    IF current = NoVersion \/ VersionGT(version, current)
    THEN version ELSE current

----------------------------------------------------------------------------
(* NinjaFile.variable / cmd_var / has_variable                             *)

HasVariable(name) == Var(name) \in var_table

\* variable() raises iff the name is declared and exist_ok is false.
VariableRaises(table, name, exist_ok) == Var(name) \in table /\ ~exist_ok

\* _var_table after variable(name, ...).
VariableTable_NotInterned(table, name) == table
VariableTable(table, name) == table \cup {Var(name)}

\* _variables after variable(name, value, section, ...): appended to the
\* section only when the name was not declared.
VariableLists_AlwaysAppend(table, lists, name, value, section) ==
    [lists EXCEPT ![section] = Append(@, <<Var(name), value>>)]
VariableLists(table, lists, name, value, section) ==
    IF Var(name) \in table THEN lists
    ELSE [lists EXCEPT ![section] = Append(@, <<Var(name), value>>)]

VariableCall(op, name, value, section, exist_ok) ==
    LET raises == VariableRaises(var_table, name, exist_ok) IN
    /\ var_table' = VariableTable(var_table, name)
    /\ variables' = VariableLists(var_table, variables, name, value, section)
    /\ last' = [NoCall EXCEPT !.op = op, !.name = name, !.value = value,
                              !.section = section, !.exist_ok = exist_ok,
                              !.err = IF raises THEN "variable_exists" ELSE "",
                              !.ret = IF raises THEN <<>> ELSE Var(name)]
    /\ UNCHANGED <<min_version, rules, builds, build_outputs, defaults, obj,
                   requested, stream>>

\* A tool object: cmd.command_var and cmd.command.
Tool(command_var, command) == [t |-> "tool", s |-> command, n |-> command_var]

CmdVarCall(cmd) == VariableCall("cmd_var", cmd.n, cmd.s, "command", TRUE)

----------------------------------------------------------------------------
(* NinjaFile.min_version                                                   *)

MinVersionCall(version) ==
    /\ min_version' = MinVersionAfter(min_version, Version(version))
    /\ requested' = requested \cup {Version(version)}
    /\ last' = [NoCall EXCEPT !.op = "min_version", !.ver = Version(version)]
    /\ UNCHANGED <<var_table, variables, rules, builds, build_outputs,
                   defaults, obj, stream>>

----------------------------------------------------------------------------
(* Commands                                                                *)

\* An argument of a command line: a plain string, a tool object (see Tool)
\* or, after conversion, a reference to a ninja variable.
Str(s) == [t |-> "str", s |-> s, n |-> <<>>]
VarRef(name) == [t |-> "var", s |-> "", n |-> name]

\* A command line: a plain list of arguments ("list"), another iterable
\* such as a tuple ("tuple"), a shell.shell_list ("shell_list"), or a
\* single string ("str", whose text is args[1]).
Line(kind, args) == [kind |-> kind, args |-> args]

\* iterutils.isiterable(thing): an Iterable that is not a string.
IsIterable(line) == line.kind \in {"list", "tuple", "shell_list"}

\* isinstance(thing, shell.shell_list)
IsShellList(line) == line.kind = "shell_list"

\* Commands.__init__ raises ValueError when given no command.
CommandsInitRaises(commands) == Len(commands) = 0

\* Commands.__init__: environ or {} (a None environment is the empty one).
Commands(commands, environ) == [commands |-> commands, environ |-> environ]

\* Commands.needs_shell
NeedsShell_IgnoreEnviron(c) ==
    \/ Len(c.commands) > 1
    \/ IsShellList(c.commands[1])
    \/ ~IsIterable(c.commands[1])
NeedsShell(c) ==
    \/ Len(c.environ) > 0
    \/ Len(c.commands) > 1
    \/ IsShellList(c.commands[1])
    \/ ~IsIterable(c.commands[1])

\* The tool objects among the arguments of one command line, in order;
\* convert() leaves a line that is not iterable alone.
LineTools(line) ==
    IF IsIterable(line) THEN SelectSeq(line.args, LAMBDA a : a.t = "tool")
    ELSE <<>>

\* The tool objects convert_args(conv) hands to conv, in call order.
RECURSIVE CommandTools(_)
CommandTools(commands) ==
    IF commands = <<>> THEN <<>>
    ELSE LineTools(Head(commands)) \o CommandTools(Tail(commands))

\* Command.convert_args(args, conv) with conv = NinjaFile.cmd_var: each tool
\* object is replaced by the Variable that cmd_var returns for it.
ConvertLine(line) ==
    IF IsIterable(line)
    THEN [line EXCEPT !.args =
            [i \in 1..Len(line.args) |->
                IF line.args[i].t = "tool" THEN VarRef(Var(line.args[i].n))
                ELSE line.args[i]]]
    ELSE line

\* Commands.convert_args: self.commands = [convert(i) for i in self.commands]
ConvertArgs(c) ==
    [c EXCEPT !.commands = [i \in 1..Len(c.commands) |-> ConvertLine(c.commands[i])]]

\* _var_table and _variables after cmd_var has been called for each tool.
RECURSIVE CmdVarTable(_, _)
CmdVarTable(table, tools) ==
    IF tools = <<>> THEN table
    ELSE CmdVarTable(VariableTable(table, Head(tools).n), Tail(tools))

RECURSIVE CmdVarLists(_, _, _)
CmdVarLists(table, lists, tools) ==
    IF tools = <<>> THEN lists
    ELSE CmdVarLists(VariableTable(table, Head(tools).n),
                     VariableLists(table, lists, Head(tools).n, Head(tools).s,
                                   "command"),
                     Tail(tools))

----------------------------------------------------------------------------
(* NinjaFile.rule / has_rule                                               *)

RuleNames(table) == {table[i].name : i \in 1..Len(table)}

HasRule(name) == name \in RuleNames(rules)

\* The command a rule stores: the bare command line commands[0], or the
\* whole Commands object.
NoLine == Line("none", <<>>)
NoCommands == Commands(<<>>, <<>>)
BareCommand(line) == [tag |-> "line", line |-> line, cmds |-> NoCommands]
WholeCommand(c) == [tag |-> "Commands", line |-> NoLine, cmds |-> c]

StoredCommand_AlwaysBare(c) == BareCommand(c.commands[1])
StoredCommand(c) ==
    IF ~NeedsShell(c) THEN BareCommand(c.commands[1]) ELSE WholeCommand(c)

\* Rule = namedtuple('Rule', [command, depfile, deps, generator, pool, restat])
Rule(command, depfile, deps, generator, pool, restat) ==
    [command |-> command, depfile |-> depfile, deps |-> deps,
     generator |-> generator, pool |-> pool, restat |-> restat]

\* The checks of rule(), in the order the code makes them; "" when none fails.
PoolRaises_AcceptAll(pool) == FALSE
PoolRaises(pool) == pool # NoPool /\ pool # "console"

RuleNameRaises(name) == ReSearchNonWord(name)

RuleExistsRaises_Never(table, name) == FALSE
RuleExistsRaises(table, name) == name \in RuleNames(table)

RuleError(table, name, pool) ==
    IF PoolRaises(pool) THEN "unknown_pool"
    ELSE IF RuleNameRaises(name) THEN "invalid_name"
    ELSE IF RuleExistsRaises(table, name) THEN "rule_exists"
    ELSE ""

\* The version min_version() is called with for the console pool.
ConsoleVersion == <<"1", ".", "5">>

\* _min_version after the pool check of rule().
PoolVersion(current, pool) ==
    IF pool = "console" THEN MinVersionAfter(current, Version(ConsoleVersion))
    ELSE current

RuleCall(name, command, depfile, deps, generator, pool, restat) ==
    LET tools == CommandTools(command.commands)
        stored == StoredCommand(ConvertArgs(command))
        err == RuleError(rules, name, pool)
    IN
    /\ var_table' = CmdVarTable(var_table, tools)
    /\ variables' = CmdVarLists(var_table, variables, tools)
    /\ min_version' = PoolVersion(min_version, pool)
    /\ requested' = IF pool = "console"
                    THEN requested \cup {Version(ConsoleVersion)}
                    ELSE requested
    /\ rules' = IF err = ""
                THEN Append(rules,
                            [name |-> name,
                             rule |-> Rule(stored, depfile, deps, generator,
                                           pool, restat)])
                ELSE rules
    /\ last' = [NoCall EXCEPT !.op = "rule", !.name = name, !.pool = pool,
                              !.err = err]
    /\ UNCHANGED <<builds, build_outputs, defaults, obj, stream>>

----------------------------------------------------------------------------
(* NinjaFile.build / has_build / default                                   *)

\* iterutils.listify(thing): None gives [], a scalar [thing], a list itself.
Scalar(x) == [kind |-> "scalar", items |-> <<x>>]
List(xs) == [kind |-> "list", items |-> xs]
Nothing == [kind |-> "none", items |-> <<>>]
Listify(thing) == thing.items

\* has_build, on a given _build_outputs.
HasBuildIn_Never(registered, name) == FALSE
HasBuildIn(registered, name) == name \in registered

HasBuild(name) == HasBuildIn(build_outputs, name)

\* The loop of build() over outputs[i..]: each output is checked against
\* the outputs registered so far and then registered at once; the loop stops
\* at the first one that is already there.
BuildLoop_ForgetsOnRaise(outputs, i, registered) ==
    IF \E k \in i..Len(outputs) : outputs[k] \in registered
    THEN [raised |-> TRUE, registered |-> {}]
    ELSE [raised |-> FALSE,
          registered |-> registered \cup {outputs[k] : k \in i..Len(outputs)}]
RECURSIVE BuildLoop(_, _, _)
BuildLoop(outputs, i, registered) ==
    IF i > Len(outputs) THEN [raised |-> FALSE, registered |-> registered]
    ELSE IF HasBuildIn(registered, outputs[i])
         THEN [raised |-> TRUE, registered |-> registered]
         ELSE BuildLoop(outputs, i + 1, registered \cup {outputs[i]})

\* build() raises for a rule that is neither 'phony' nor declared.
BuildRuleRaises_Never(table, rule) == FALSE
BuildRuleRaises(table, rule) == rule # Phony /\ rule \notin RuleNames(table)

\* {var(k): v for k, v in iteritems(variables or {})}, as a sequence of
\* <<Variable, value>> in the order of the mapping.
RECURSIVE DictFromPairs(_, _)
DictFromPairs(pairs, acc) ==
    IF pairs = <<>> THEN acc
    ELSE LET k == Var(Head(pairs)[1])
             v == Head(pairs)[2]
             at == {i \in 1..Len(acc) : acc[i][1] = k}
         IN DictFromPairs(Tail(pairs),
                IF at = {} THEN Append(acc, <<k, v>>)
                ELSE [i \in 1..Len(acc) |-> IF i \in at THEN <<k, v>> ELSE acc[i]])

BuildVariables(overrides) == DictFromPairs(overrides, <<>>)

\* Build = namedtuple('Build', [outputs, rule, inputs, implicit, order_only,
\*                              variables])
Build(outputs, rule, inputs, implicit, order_only, overrides) ==
    [outputs |-> outputs, rule |-> rule, inputs |-> inputs,
     implicit |-> implicit, order_only |-> order_only,
     variables |-> overrides]

\* The error build() raises, "" when it succeeds.
BuildError(table, registered, outputs, rule) ==
    IF BuildRuleRaises(table, rule) THEN "unknown_rule"
    ELSE IF BuildLoop(outputs, 1, registered).raised THEN "duplicate_output"
    ELSE ""

BuildCall(output, rule, inputs, implicit, order_only, overrides) ==
    LET outputs == Listify(output)
        ruleErr == BuildRuleRaises(rules, rule)
        loop == BuildLoop(outputs, 1, build_outputs)
        err == BuildError(rules, build_outputs, outputs, rule)
    IN
    /\ build_outputs' = IF ruleErr THEN build_outputs ELSE loop.registered
    /\ builds' = IF err = ""
                 THEN Append(builds,
                             Build(outputs, rule, Listify(inputs),
                                   Listify(implicit), Listify(order_only),
                                   BuildVariables(overrides)))
                 ELSE builds
    /\ last' = [NoCall EXCEPT !.op = "build", !.name = rule, !.outs = outputs,
                              !.err = err]
    /\ UNCHANGED <<min_version, var_table, variables, rules, defaults, obj,
                   requested, stream>>

\* default(paths): self._defaults.extend(paths)
DefaultCall(paths) ==
    /\ defaults' = defaults \o paths
    /\ last' = [NoCall EXCEPT !.op = "default", !.outs = paths]
    /\ UNCHANGED <<min_version, var_table, variables, rules, builds,
                   build_outputs, obj, requested, stream>>

----------------------------------------------------------------------------
(* NinjaFile.__init__                                                      *)

NoObject == Commands(<<>>, <<>>)

Init ==
    /\ min_version = NoVersion
    /\ var_table = {}
    /\ variables = [s \in SectionSet |-> <<>>]
    /\ rules = <<>>
    /\ builds = <<>>
    /\ build_outputs = {}
    /\ defaults = <<>>
    /\ obj = NoObject
    /\ last = NoCall
    /\ requested = {}
    /\ stream = <<>>

----------------------------------------------------------------------------
(* Declaring rules and build edges: the specification SpecBuild            *)

MaxBuilds == 2      \* edges stored before the exploration stops
MaxOutputs == 2     \* outputs named by one build() call

Outputs == {"a.o", "b.o"}

OutputLists == StringsUpTo(Outputs, MaxOutputs)

\* What build() is given as output: nothing, one output, or a list.
OutputArgs ==
    {Nothing} \cup {Scalar(o) : o \in Outputs} \cup {List(xs) : xs \in OutputLists}

CC == <<"c", "c">>
LD == <<"l", "d">>

\* A one-line command with a plain argument list.
PlainCommand == Commands(<<Line("list", <<Str("cc"), Str("-c")>>)>>, <<>>)

\* inputs, implicit, order_only and variables of a build() call: none for a
\* phony edge, one of each for an edge of a declared rule.
BuildExtras(rule) ==
    IF rule = Phony THEN <<Nothing, Nothing, Nothing, <<>>>>
    ELSE <<List(<<"a.c">>), Scalar("a.h"), List(<<"dir">>),
           <<<<<<"o", "-", "x">>, "1">>>>>>

BuildRuleDecl ==
    \E name \in {CC} :
        RuleCall(name, PlainCommand, NoValue, NoValue, FALSE, NoPool, FALSE)

\* A call that would store one edge more than MaxBuilds is not explored.
BuildDecl ==
    \E output \in OutputArgs, rule \in {Phony, CC, LD} :
        /\ \/ Len(builds) < MaxBuilds
           \/ BuildError(rules, build_outputs, Listify(output), rule) # ""
        /\ LET x == BuildExtras(rule)
           IN BuildCall(output, rule, x[1], x[2], x[3], x[4])

NextBuild == BuildRuleDecl \/ BuildDecl

SpecBuild == Init /\ [][NextBuild]_vars

\* The outputs owned by the i-th stored edge.
Owned(i) == {builds[i].outputs[j] : j \in 1..Len(builds[i].outputs)}

AllOwned == UNION {Owned(i) : i \in 1..Len(builds)}

Elements(xs) == {xs[j] : j \in 1..Len(xs)}

\* C1: after any sequence of build() calls, successful or failed, no output
\* is owned by two stored edges and none appears twice within one edge; and
\* a build() call naming an output that a stored edge already owns raises
\* and appends no edge.
C1_NoSharedOutput ==
    /\ \A i, j \in 1..Len(builds) : i # j => Owned(i) \cap Owned(j) = {}
    /\ \A i \in 1..Len(builds) :
         \A p, q \in 1..Len(builds[i].outputs) :
             p # q => builds[i].outputs[p] # builds[i].outputs[q]

C1_DuplicateRejected ==
    (last'.op = "build" /\ Elements(last'.outs) \cap AllOwned # {})
        => (last'.err # "" /\ builds' = builds)

\* C1: no output is owned by two stored edges or twice by one, in every
\* state; and every build() call naming an owned output raises and appends
\* no edge.
C1_OutputsUnique == [](C1_NoSharedOutput) /\ [][C1_DuplicateRejected]_vars

\* C1 witness: two edges are stored and the last build() call, naming an
\* output one of them owns, was rejected as a duplicate.
C1_Witness ==
    /\ Len(builds) = 2
    /\ last.op = "build"
    /\ last.err = "duplicate_output"
    /\ Elements(last.outs) \cap AllOwned # {}

\* C2: a build() call with several outputs that fails because one of them
\* is already registered leaves the registered outputs and the edge list as
\* they were, so has_build() stays false for the other outputs of the call.
C2_FailedBuildIsAtomic ==
    [][(/\ last'.op = "build"
        /\ last'.err = "duplicate_output"
        /\ Elements(last'.outs) \cap build_outputs # {})
          => (/\ build_outputs' = build_outputs
              /\ builds' = builds
              /\ \A o \in Elements(last'.outs) : HasBuild(o)' = HasBuild(o))]_vars

\* C3: every stored edge names 'phony' or a declared rule; build() with any
\* other rule raises the unknown-rule error and changes neither the
\* registered outputs nor the edge list; build() with 'phony' never raises
\* it, and with fresh outputs succeeds even when no rule is declared.
C3_EdgesNameKnownRules ==
    \A i \in 1..Len(builds) :
        builds[i].rule = Phony \/ \E k \in 1..Len(rules) : rules[k].name = builds[i].rule

C3_UnknownRuleRejected ==
    /\ (/\ last'.op = "build"
        /\ last'.name # Phony
        /\ ~\E k \in 1..Len(rules) : rules[k].name = last'.name)
          => (/\ last'.err = "unknown_rule"
              /\ build_outputs' = build_outputs
              /\ builds' = builds)
    /\ (last'.op = "build" /\ last'.name = Phony)
          => (/\ last'.err # "unknown_rule"
              /\ (/\ Elements(last'.outs) \cap build_outputs = {}
                  /\ Cardinality(Elements(last'.outs)) = Len(last'.outs))
                    => (/\ last'.err = ""
                        /\ Len(builds') = Len(builds) + 1
                        /\ builds'[Len(builds')].rule = Phony))

\* C3: every stored edge names 'phony' or a declared rule, in every state;
\* and every build() call obeys C3_UnknownRuleRejected.
C3_ReferentialIntegrity ==
    [](C3_EdgesNameKnownRules) /\ [][C3_UnknownRuleRejected]_vars

\* C3 witness: no rule is declared, a phony edge is stored, and the last
\* build() call, naming an undeclared rule, was rejected.
C3_Witness ==
    /\ rules = <<>>
    /\ \E i \in 1..Len(builds) : builds[i].rule = Phony
    /\ last.op = "build"
    /\ last.err = "unknown_rule"

----------------------------------------------------------------------------
(* Declaring variables: the specification SpecVar                          *)

MaxVarNameLen == 1  \* length of the names given to variable()
MaxVars == 2        \* variables declared before the exploration stops

\* A word character, a non-word character, and the replacement character.
VarAlphabet == {"a", "-", "_"}

\* The names 'a-b' and 'a_b'.
ADashB == <<"a", "-", "b">>
AUnderB == <<"a", "_", "b">>

VarNameArgs == StringsUpTo(VarAlphabet, MaxVarNameLen) \cup {ADashB, AUnderB}

\* value, section and exist_ok of a variable() call.
VarArgs == {<<"1", "other", TRUE>>, <<"2", "path", FALSE>>}

VarTools == {Tool(CC, "gcc")}

\* A call that would declare one variable more than MaxVars is not explored.
VariableDecl ==
    \E name \in VarNameArgs, a \in VarArgs :
        /\ Cardinality(var_table) < MaxVars \/ HasVariable(name)
        /\ VariableCall("variable", name, a[1], a[2], a[3])

CmdVarDecl ==
    \E cmd \in VarTools :
        /\ Cardinality(var_table) < MaxVars \/ HasVariable(cmd.n)
        /\ CmdVarCall(cmd)

NextVar == VariableDecl \/ CmdVarDecl

SpecVar == Init /\ [][NextVar]_vars

\* Every <<section, index>> at which a variable is stored.
Entries == {<<s, i>> : s \in SectionSet, i \in 1..MaxVars + 1}

StoredAt == {e \in Entries : e[2] <= Len(variables[e[1]])}

EntryName(e) == variables[e[1]][e[2]][1]

EntryValue(e) == variables[e[1]][e[2]][2]

\* C4: redeclaring a declared variable with exist_ok=False raises the
\* already-exists error; with exist_ok=True the call returns the original
\* identity, adds no entry to any section and leaves the stored value and
\* section of the variable as they were, whatever value and section it names.
C4_NoSecondEntry ==
    \A e, f \in StoredAt : EntryName(e) = EntryName(f) => e = f

C4_Redeclaration ==
    \A e \in StoredAt :
        (last'.op = "variable" /\ Var(last'.name) = EntryName(e))
          => IF last'.exist_ok
             THEN /\ last'.err = ""
                  /\ last'.ret = EntryName(e)
                  /\ variables' = variables
                  /\ var_table' = var_table
             ELSE last'.err = "variable_exists"

\* C4: no variable is stored twice, in every state; and every redeclaration
\* raises (exist_ok=False) or returns the original identity and changes
\* nothing (exist_ok=True).
C4_RedeclareVariable == [](C4_NoSecondEntry) /\ [][C4_Redeclaration]_vars

\* C4 witness: a variable was redeclared with exist_ok=True under another
\* value and another section, and the call returned without an error.
C4_Witness ==
    /\ last.op = "variable"
    /\ last.exist_ok
    /\ last.err = ""
    /\ \E e \in StoredAt :
         /\ EntryName(e) = last.ret
         /\ EntryValue(e) # last.value
         /\ e[1] # last.section

\* Two of the names given to variable() that differ at most in which of the
\* characters '-' and '_' stands at a position.
C5_SameIdentity(n1, n2) ==
    /\ Len(n1) = Len(n2)
    /\ \A i \in 1..Len(n1) :
         \/ n1[i] = n2[i]
         \/ n1[i] \in {"-", "_"} /\ n2[i] \in {"-", "_"}

\* C5: a variable is identified by its name with every non-word character
\* replaced by '_': the Variable of the name a call was given equals the
\* Variable of a name n2 iff the two names agree up to that replacement
\* (every name is given to some call); a successful variable(n1) makes has_variable(n2) true
\* for exactly the names n2 with the identity of n1 (and changes it for no
\* other name); and declaring a name with the identity of a declared one is
\* a redeclaration: an error with exist_ok=False, a reuse that changes
\* nothing with exist_ok=True.
C5_EqualIffNormalized ==
    \A n2 \in VarNameArgs :
        (Var(last.name) = Var(n2)) <=> C5_SameIdentity(last.name, n2)

C5_DeclareStep ==
    /\ (last'.op = "variable" /\ last'.err = "")
         => \A n2 \in VarNameArgs :
              HasVariable(n2)' <=>
                  (HasVariable(n2) \/ C5_SameIdentity(last'.name, n2))
    /\ (/\ last'.op = "variable"
        /\ \E e \in StoredAt : C5_SameIdentity(EntryName(e), last'.name))
         => IF last'.exist_ok
            THEN /\ last'.err = ""
                 /\ variables' = variables
                 /\ var_table' = var_table
            ELSE last'.err = "variable_exists"

\* C5: Variables are equal iff their normalized names are, and every
\* variable() call declares, or redeclares, by normalized name.
C5_IdentityIsNormalizedName ==
    [](C5_EqualIffNormalized) /\ [][C5_DeclareStep]_vars

\* C5 witness: a variable is stored as 'a_b' and the last call, declaring
\* 'a-b' with exist_ok=False, was rejected as a redeclaration.
C5_Witness ==
    /\ last.op = "variable"
    /\ last.name = ADashB
    /\ ~last.exist_ok
    /\ last.err = "variable_exists"
    /\ \E e \in StoredAt : EntryName(e) = AUnderB
    /\ HasVariable(AUnderB) /\ HasVariable(ADashB) /\ ~HasVariable(<<"a">>)

----------------------------------------------------------------------------
(* Declaring rules: the specification SpecRule                             *)

MaxRuleNameLen == 2 \* length of the names given to rule()
MaxRules == 2       \* rules declared before the exploration stops

\* A word character and a non-word character.
RuleAlphabet == {"a", " "}

GoodName2 == <<"g", "o", "o", "d", "_", "n", "a", "m", "e", "2">>
BadName == <<"b", "a", "d", " ", "n", "a", "m", "e">>

RuleNameArgs == StringsUpTo(RuleAlphabet, MaxRuleNameLen) \cup {GoodName2, BadName}

\* pool: None, the console pool, an unknown pool.
PoolArgs == {NoPool, "console", "deep"}

\* A command of two lines with an environment, whose first line names a tool.
ToolCommand ==
    Commands(<<Line("list", <<Tool(CC, "gcc"), Str("-c")>>),
               Line("str", <<Str("echo done")>>)>>,
             <<<<"LANG", "C">>>>)

\* command, depfile, deps, generator and restat of a rule() call: a console
\* rule runs ToolCommand and sets every option, any other rule sets none.
RuleArgs(pool) ==
    IF pool = "console" THEN <<ToolCommand, "$out.d", "gcc", TRUE, TRUE>>
    ELSE <<PlainCommand, NoValue, NoValue, FALSE, FALSE>>

\* A call that would declare one rule more than MaxRules is not explored.
RuleDecl ==
    \E name \in RuleNameArgs, pool \in PoolArgs :
        /\ Len(rules) < MaxRules \/ RuleError(rules, name, pool) # ""
        /\ LET a == RuleArgs(pool)
           IN RuleCall(name, a[1], a[2], a[3], a[4], pool, a[5])

NextRule == RuleDecl

SpecRule == Init /\ [][NextRule]_vars

\* The identifier characters [A-Za-z0-9_].
IdentifierChars == Lower \cup Upper \cup Digits \cup {"_"}

HasNonIdentifierChar(name) == \E i \in 1..Len(name) : name[i] \notin IdentifierChars

Declared(name) == \E k \in 1..Len(rules) : rules[k].name = name

\* C6 as stated: rule(name, ...) on a file holding no rule of that name
\* raises the invalid-name error iff the name has a character outside
\* [A-Za-z0-9_] and succeeds otherwise, whatever the other arguments are;
\* the invalid-name failure leaves the rule table unchanged.
C6_AsStated ==
    [][(last'.op = "rule" /\ ~Declared(last'.name))
         => /\ (last'.err = "invalid_name") <=> HasNonIdentifierChar(last'.name)
            /\ ~HasNonIdentifierChar(last'.name) => last'.err = ""
            /\ last'.err = "invalid_name" => rules' = rules]_vars

\* C6, amended: rule(name, ...) with a pool that is unset or 'console', on
\* a file holding no rule of that name, raises the invalid-name error iff
\* the name has a character outside [A-Za-z0-9_] and succeeds otherwise,
\* storing the rule under that name; with any other pool it raises the
\* unknown-pool error whatever the name is.  Every failure leaves the rule
\* table unchanged.
C6_NameStep ==
    (last'.op = "rule" /\ ~Declared(last'.name))
      => IF last'.pool \in {NoPool, "console"}
         THEN /\ (last'.err = "invalid_name") <=> HasNonIdentifierChar(last'.name)
              /\ ~HasNonIdentifierChar(last'.name)
                   => /\ last'.err = ""
                      /\ Len(rules') = Len(rules) + 1
                      /\ rules'[Len(rules')].name = last'.name
              /\ last'.err # "" => rules' = rules
         ELSE last'.err = "unknown_pool" /\ rules' = rules

\* C6, amended: every rule() call on a file holding no rule of that name
\* obeys C6_NameStep.
C6_InvalidRuleName == [][C6_NameStep]_vars

\* C6 witness: 'good_name2' is declared and the last call, declaring
\* 'bad name', was rejected for its name.
C6_Witness ==
    /\ Declared(GoodName2)
    /\ last.op = "rule"
    /\ last.name = BadName
    /\ last.err = "invalid_name"

\* C7 as stated: a rule() call with a name already in the rule table raises
\* the already-exists error, and the rule stored under that name is still
\* the first declaration, at its position.
C7_AsStated ==
    [][(last'.op = "rule" /\ Declared(last'.name))
         => (last'.err = "rule_exists" /\ rules' = rules)]_vars

\* C7, amended: a rule() call with a name already in the rule table raises
\* the already-exists error when its pool is unset or 'console' and the
\* unknown-pool error otherwise; either way the rule table is unchanged, so
\* the rule stored under that name is still the first declaration, at its
\* position.  No name is ever stored twice.
C7_NamesUnique ==
    \A j, k \in 1..Len(rules) : rules[j].name = rules[k].name => j = k

C7_RedeclareStep ==
    (last'.op = "rule" /\ Declared(last'.name))
      => /\ last'.err = IF last'.pool \in {NoPool, "console"}
                        THEN "rule_exists" ELSE "unknown_pool"
         /\ rules' = rules

\* C7, amended: no rule name is stored twice, in every state; and every
\* rule() call with a declared name fails and leaves the rule table unchanged.
C7_RuleNamesUnique == [](C7_NamesUnique) /\ [][C7_RedeclareStep]_vars

\* C7 witness: two rules are stored, and the last call redeclared the first
\* of them with another pool (so with another command and other options)
\* and was rejected.
C7_Witness ==
    /\ Len(rules) = 2
    /\ last.op = "rule"
    /\ last.err = "rule_exists"
    /\ last.name = rules[1].name
    /\ last.pool = "console"
    /\ rules[1].rule.pool = NoPool

----------------------------------------------------------------------------
(* The minimum-version watermark: the specification SpecVersion            *)

\* The versions min_version() is called with: '1.3', '1.10' and '2.0'
\* ('1.5' is requested by rule() for the console pool).
VersionArgs ==
    {<<"1", ".", "3">>, <<"1", ".", "1", "0">>, <<"2", ".", "0">>}

\* pool: None, the empty string, the console pool, an unknown pool.
VersionPoolArgs == {NoPool, "", "console", "deep"}

MinVersionReq == \E version \in VersionArgs : MinVersionCall(version)

VersionRuleDecl ==
    \E name \in {CC, BadName}, pool \in VersionPoolArgs :
        LET a == RuleArgs(pool)
        IN RuleCall(name, a[1], a[2], a[3], a[4], pool, a[5])

NextVersion == MinVersionReq \/ VersionRuleDecl

SpecVersion == Init /\ [][NextVersion]_vars

\* a < b for versions of two components.
Below(a, b) == a[1] < b[1] \/ (a[1] = b[1] /\ a[2] < b[2])

\* C8: rule() accepts a pool only when it is unset, empty or 'console';
\* with 'console' the watermark is at least 1.5 after the call, with an
\* unset or empty pool the call leaves the watermark as it was, and with any
\* other pool the call raises the unknown-pool error and adds no rule.
C8_PoolStep ==
    last'.op = "rule"
      => /\ last'.err = "" => last'.pool \in {NoPool, "", "console"}
         /\ last'.pool = "console"
              => min_version' # NoVersion /\ ~Below(min_version', <<1, 5>>)
         /\ last'.pool \in {NoPool, ""} => min_version' = min_version
         /\ last'.pool \notin {NoPool, "", "console"}
              => last'.err = "unknown_pool" /\ rules' = rules

\* C8: every rule() call obeys C8_PoolStep.
C8_PoolCheck == [][C8_PoolStep]_vars

\* C8 witness: a console rule was accepted on a file whose watermark, 1.10,
\* was already above 1.5.
C8_Witness ==
    /\ last.op = "rule"
    /\ last.pool = "console"
    /\ last.err = ""
    /\ \E k \in 1..Len(rules) : rules[k].rule.pool = "console"
    /\ min_version = <<1, 10>>

\* C9: over any sequence of min_version(v) and rule(..., pool=...) calls the
\* watermark is unset iff no version was requested, otherwise it is the
\* greatest version requested so far; once set it never decreases.
C9_IsMaximum ==
    /\ requested = {} <=> min_version = NoVersion
    /\ requested # {}
         => /\ min_version \in requested
            /\ \A v \in requested : ~Below(min_version, v)

C9_NeverLowered ==
    min_version # NoVersion
      => min_version' # NoVersion /\ ~Below(min_version', min_version)

\* C9: the watermark is the greatest version requested so far (unset iff
\* none was), in every state; and no call lowers or unsets it.
C9_WatermarkMonotone == [](C9_IsMaximum) /\ [][C9_NeverLowered]_vars

\* C9 witness: 1.10 was requested, then 1.5 by a console rule, and the last
\* call, min_version('1.3'), left the watermark at 1.10.
C9_Witness ==
    /\ requested = {<<1, 3>>, <<1, 5>>, <<1, 10>>}
    /\ last.op = "min_version"
    /\ last.ver = <<1, 3>>
    /\ min_version = <<1, 10>>

----------------------------------------------------------------------------
(* Commands objects: the specification SpecCmd                             *)

MaxCommands == 2    \* command lines given to Commands()
MaxEnviron == 1     \* bindings of the environment given to Commands()

\* One command line of each kind.
CmdLines ==
    {Line("list", <<Str("cc"), Str("-c")>>),
     Line("tuple", <<Str("ld")>>),
     Line("shell_list", <<Str("a"), Str("|"), Str("b")>>),
     Line("str", <<Str("make all")>>)}

CommandsArgs == StringsUpTo(CmdLines, MaxCommands)

\* A mapping, as the sequence of its <<name, value>> items in insertion
\* order; the names of a mapping are distinct.
Dict(items) == [kind |-> "dict", items |-> items]

EnvBindings == {<<"A", "1">>, <<"B", "2">>}

EnvironArgs ==
    {Nothing} \cup
    {Dict(e) : e \in {x \in StringsUpTo(EnvBindings, MaxEnviron) :
                        \A i, j \in 1..Len(x) : x[i][1] = x[j][1] => i = j}}

\* environ or {}
EnvironOrEmpty(environ) == environ.items

\* Commands(commands, environ)
CommandsNew ==
    \E commands \in CommandsArgs, environ \in EnvironArgs :
        /\ obj' = IF CommandsInitRaises(commands) THEN obj
                  ELSE Commands(commands, EnvironOrEmpty(environ))
        /\ last' = [NoCall EXCEPT !.op = "Commands",
                                  !.err = IF CommandsInitRaises(commands)
                                          THEN "no_command" ELSE ""]
        /\ UNCHANGED <<min_version, var_table, variables, rules, builds,
                       build_outputs, defaults, requested, stream>>

\* obj.needs_shell, read on a constructed object.
NeedsShellRead ==
    /\ obj # NoObject
    /\ last' = [NoCall EXCEPT !.op = "needs_shell",
                              !.err = IF CommandsInitRaises(obj.commands)
                                      THEN "no_command" ELSE "",
                              !.retb = NeedsShell(obj)]
    /\ UNCHANGED <<min_version, var_table, variables, rules, builds,
                   build_outputs, defaults, obj, requested, stream>>

NextCmd == CommandsNew \/ NeedsShellRead

SpecCmd == Init /\ [][NextCmd]_vars

\* C10: needs_shell of a Commands object is false exactly when the
\* environment is empty and there is a single command line that is an
\* iterable argument list other than a shell_list; so it is true iff the
\* environment is non-empty, or there are several command lines, or the
\* single line is a shell_list or is not iterable (a string).
C10_NeedsShell ==
    last.op = "needs_shell"
      => /\ last.err = ""
         /\ ~last.retb <=>
              /\ obj.environ = <<>>
              /\ Len(obj.commands) = 1
              /\ obj.commands[1].kind \in {"list", "tuple"}

\* C10 witness: needs_shell was read as true on an object with an empty
\* environment whose single command line is a shell_list.
C10_Witness ==
    /\ last.op = "needs_shell"
    /\ last.retb
    /\ obj.environ = <<>>
    /\ Len(obj.commands) = 1
    /\ obj.commands[1].kind = "shell_list"

----------------------------------------------------------------------------
(* shell.posix: escape, quote, split, join_commands, global_env            *)

\* The text of a Python string literal, one character per element.
RECURSIVE Flatten(_)
Flatten(parts) ==
    IF parts = <<>> THEN <<>> ELSE Head(parts) \o Flatten(Tail(parts))

HasChar(string, chars) == \E i \in 1..Len(string) : string[i] \in chars

\* _bad_chars = re.compile(r'[^\w@%+:,./-]'): the characters it does not match.
SafeChars_NoColon == {"@", "%", "+", ",", ".", "/", "-"}
SafeChars == {"@", "%", "+", ":", ",", ".", "/", "-"}

IsBadChar(c) == ~IsWordChar(c) /\ c \notin SafeChars

\* _bad_chars.search(s)
BadCharsSearch(s) == \E i \in 1..Len(s) : IsBadChar(s[i])

\* s.replace("'", "'\"'\"'")
ReplaceQuotes_Backslash(s) ==
    Flatten([i \in 1..Len(s) |->
                IF s[i] = "'" THEN <<"\\", "'">> ELSE <<s[i]>>])
ReplaceQuotes(s) ==
    Flatten([i \in 1..Len(s) |->
                IF s[i] = "'" THEN <<"'", "\"", "'", "\"", "'">>
                ELSE <<s[i]>>])

\* escape(s): the pair (text, escaped)
Escape(s) ==
    IF s = <<>> THEN <<s, FALSE>>
    ELSE IF ~BadCharsSearch(s) THEN <<s, FALSE>>
    ELSE <<ReplaceQuotes(s), TRUE>>

\* quote_escaped(s, escaped)
QuoteEscaped(s, escaped) == IF escaped THEN <<"'">> \o s \o <<"'">> ELSE s

\* quote(s)
Quote(s) == QuoteEscaped(Escape(s)[1], Escape(s)[2])

\* quote_info(s): the pair (quoted text, escaped)
QuoteInfo(s) == <<QuoteEscaped(Escape(s)[1], Escape(s)[2]), Escape(s)[2]>>

\* split(s): shlex(s, posix=True) with no commenters, no escape characters
\* and whitespace_split, read to the end.  The lexer is in state " "
\* (between tokens), "a" (in a word) or a quote character (in a quoted
\* part); a token is returned when it is non-empty or had a quoted part.
ShlexWhitespace == {" ", "\t", "\r", "\n"}
ShlexQuotes == {"'", "\""}

RECURSIVE ReadTokens(_, _, _, _, _, _)
ReadTokens(s, i, state, token, quoted, tokens) ==
    IF i > Len(s)
    THEN IF state \in ShlexQuotes
         THEN [tokens |-> tokens, err |-> "no_closing_quotation"]
         ELSE [tokens |-> IF token # <<>> \/ quoted
                          THEN Append(tokens, token) ELSE tokens,
               err |-> ""]
    ELSE LET c == s[i] IN
         IF state = " "
         THEN IF c \in ShlexWhitespace
              THEN ReadTokens(s, i + 1, " ", <<>>, FALSE, tokens)
              ELSE IF c \in ShlexQuotes
              THEN ReadTokens(s, i + 1, c, <<>>, TRUE, tokens)
              ELSE ReadTokens(s, i + 1, "a", <<c>>, FALSE, tokens)
         ELSE IF state \in ShlexQuotes
         THEN IF c = state
              THEN ReadTokens(s, i + 1, "a", token, TRUE, tokens)
              ELSE ReadTokens(s, i + 1, state, Append(token, c), TRUE, tokens)
         ELSE \* state = "a"
              IF c \in ShlexWhitespace
              THEN ReadTokens(s, i + 1, " ", <<>>, FALSE,
                              IF token # <<>> \/ quoted
                              THEN Append(tokens, token) ELSE tokens)
              ELSE IF c \in ShlexQuotes
              THEN ReadTokens(s, i + 1, c, token, TRUE, tokens)
              ELSE ReadTokens(s, i + 1, "a", Append(token, c), quoted, tokens)

Split(s) == ReadTokens(s, 1, " ", <<>>, FALSE, <<>>)

\* iterutils.tween(iterable, delim, prefix, suffix); an absent prefix or
\* suffix is the empty sequence, a present one a sequence of one element.
RECURSIVE TweenRest(_, _)
TweenRest(items, delim) ==
    IF items = <<>> THEN <<>>
    ELSE <<delim, Head(items)>> \o TweenRest(Tail(items), delim)

Tween_PrefixFirst(items, delim, prefix, suffix) ==
    prefix \o (IF items = <<>> THEN <<>>
               ELSE <<Head(items)>> \o TweenRest(Tail(items), delim) \o suffix)
Tween(items, delim, prefix, suffix) ==
    IF items = <<>> THEN <<>>
    ELSE prefix \o <<Head(items)>> \o TweenRest(Tail(items), delim) \o suffix

----------------------------------------------------------------------------
(* Writer: escape_str, write, write_each, write_shell                      *)

\* Syntax = Enum('Syntax', ['output', 'input', 'shell', 'clean'])
Syntaxes == {"output", "input", "shell", "clean"}

\* re.sub(r'([chars])', r'$\1', string)
PrefixWithDollar(string, chars) ==
    Flatten([i \in 1..Len(string) |->
                IF string[i] \in chars THEN <<"$", string[i]>>
                ELSE <<string[i]>>])

\* escape_str raises ValueError('illegal newline')
EscapeStrRaises(string) == HasChar(string, {"\n"})

\* escape_str(string, syntax), for a string it does not raise on
EscapeStr_OutputAsInput(string, syntax) ==
    IF syntax \in {"output", "input"}
    THEN PrefixWithDollar(string, {"$", " "})
    ELSE PrefixWithDollar(string, {"$"})
EscapeStr(string, syntax) ==
    IF syntax = "output" THEN PrefixWithDollar(string, {":", "$", " "})
    ELSE IF syntax = "input" THEN PrefixWithDollar(string, {"$", " "})
    ELSE PrefixWithDollar(string, {"$"})

\* Variable.use(): safe_str.literal('${name}')
VariableUse(name) == Literal(<<"$", "{">> \o name \o <<"}">>)

\* path_vars: the Variable registered for a symbolic root, NoVariable for
\* the build directory (None).
NoVariable == <<>>
Roots == {"srcdir", "builddir", "bindir", "libdir", "includedir"}
RootName(root) ==
    CASE root = "srcdir" -> <<"s", "r", "c", "d", "i", "r">>
      [] root = "builddir" -> <<"b", "u", "i", "l", "d", "d", "i", "r">>
      [] root = "bindir" -> <<"b", "i", "n", "d", "i", "r">>
      [] root = "libdir" -> <<"l", "i", "b", "d", "i", "r">>
      [] root = "includedir" ->
            <<"i", "n", "c", "l", "u", "d", "e", "d", "i", "r">>

path_vars_BuilddirVariable(root) == Var(RootName(root))
path_vars(root) ==
    IF root = "builddir" THEN NoVariable ELSE Var(RootName(root))

\* Path.realize(path_vars, executable): the root's variable reference, a
\* separator and the suffix; the suffix alone when the root has no
\* variable.  (Nothing is said of the executable flag, which is not used.)
Realize(thing, executable) ==
    LET root == path_vars(thing.root) IN
    IF root = NoVariable
    THEN PlainStr(IF thing.s = <<>> THEN <<".">> ELSE thing.s)
    ELSE IF thing.s = <<>> THEN VariableUse(root)
    ELSE Jbos(<<VariableUse(root), PlainStr(<<"/">>), PlainStr(thing.s)>>)

\* The outcome of a write: the text it wrote to the stream (also when it
\* raised part-way), the value it returned, and the error it raised.
Written(out, escaped) == [out |-> out, escaped |-> escaped, err |-> ""]
Raised(out, err) == [out |-> out, escaped |-> FALSE, err |-> err]

\* shell_quote(thing), for the functions write() is given: quote_info,
\* escape (for the parts of a path).
ShellQuote(shell_quote, s) ==
    IF shell_quote = "escape" THEN Escape(s) ELSE QuoteInfo(s)

\* Writer.write(thing, syntax, shell_quote); shell_quote is "quote_info",
\* "escape" or "none" (None).
RECURSIVE Write(_, _, _)
RECURSIVE WriteBits(_, _, _)

WriteLiteral(thing, syntax) == Written(thing.s, TRUE)

WriteString(thing, syntax, shell_quote) ==
    LET q == IF syntax = "shell" /\ shell_quote # "none"
             THEN ShellQuote(shell_quote, thing.s)
             ELSE <<thing.s, FALSE>>
    IN IF EscapeStrRaises(q[1]) THEN Raised(<<>>, "illegal_newline")
       ELSE Written(EscapeStr(q[1], syntax), q[2])

WriteShellLiteral_Quoted(thing, syntax) ==
    WriteString(thing, syntax, "quote_info")
WriteShellLiteral(thing, syntax) ==
    IF EscapeStrRaises(thing.s) THEN Raised(<<>>, "illegal_newline")
    ELSE Written(EscapeStr(thing.s, syntax), TRUE)

Write(thing, syntax, shell_quote) ==
    CASE thing.t = "literal" -> WriteLiteral(thing, syntax)
      [] thing.t = "shell_literal" -> WriteShellLiteral(thing, syntax)
      [] thing.t = "str" -> WriteString(thing, syntax, shell_quote)
      [] thing.t = "jbos" -> WriteBits(thing.bits, syntax, shell_quote)
      [] thing.t = "path" ->
            LET shelly == syntax = "shell"
                r == Write(Realize(thing, shelly), syntax, "escape")
            IN IF r.err # "" THEN Raised(<<>>, r.err)
               ELSE Written(IF shelly /\ r.escaped
                            THEN QuoteEscaped(r.out, TRUE) ELSE r.out,
                            r.escaped)
      [] OTHER -> Raised(<<>>, "type_error")

\* for i in thing.bits: escaped |= self.write(i, syntax, shell_quote)
WriteBits(bits, syntax, shell_quote) ==
    IF bits = <<>> THEN Written(<<>>, FALSE)
    ELSE LET h == Write(Head(bits), syntax, shell_quote) IN
         IF h.err # "" THEN h
         ELSE LET r == WriteBits(Tail(bits), syntax, shell_quote) IN
              [out |-> h.out \o r.out,
               escaped |-> IF r.err = "" THEN h.escaped \/ r.escaped
                           ELSE FALSE,
               err |-> r.err]

\* Writer.write_each(things, syntax, delim, prefix, suffix): each element of
\* the tween is written with the default shell_quote.
RECURSIVE WriteAll(_, _)
WriteAll(things, syntax) ==
    IF things = <<>> THEN Written(<<>>, FALSE)
    ELSE LET h == Write(Head(things), syntax, "quote_info") IN
         IF h.err # "" THEN h
         ELSE LET r == WriteAll(Tail(things), syntax) IN
              [out |-> h.out \o r.out, escaped |-> FALSE, err |-> r.err]

Space == Literal(<<" ">>)

WriteEach(things, syntax, delim, prefix, suffix) ==
    WriteAll(Tween(things, delim, prefix, suffix), syntax)

\* Writer.write_shell(thing, syntax): thing is a command line.
WriteShell(line, syntax) ==
    IF IsIterable(line) THEN WriteEach(line.args, syntax, Space, <<>>, <<>>)
    ELSE [Write(line.args[1], syntax, "none") EXCEPT !.escaped = FALSE]

----------------------------------------------------------------------------
(* Commands.use                                                            *)

Export == <<"e", "x", "p", "o", "r", "t">>

\* shell.global_env(env): the line ['export', jbos(name, '=', value)] for
\* each binding, in the mapping's order.
GlobalEnv_Reversed(environ) ==
    [i \in 1..Len(environ) |->
        Line("list",
             <<PlainStr(Export),
               Jbos(<<PlainStr(environ[Len(environ) + 1 - i][1]),
                      ShellLiteral(<<"=">>),
                      PlainStr(environ[Len(environ) + 1 - i][2])>>)>>)]
GlobalEnv(environ) ==
    [i \in 1..Len(environ) |->
        Line("list",
             <<PlainStr(Export),
               Jbos(<<PlainStr(environ[i][1]), ShellLiteral(<<"=">>),
                      PlainStr(environ[i][2])>>)>>)]

\* shell.join_commands(commands): tween(commands, shell_literal(' && ')).
\* The delimiter is handed to write_shell like a command line; it is not
\* iterable.
AndAnd == <<" ", "&", "&", " ">>
JoinCommands(commands) ==
    Tween(commands, Line("shell_literal", <<ShellLiteral(AndAnd)>>),
          <<>>, <<>>)

\* for line in ...: out.write_shell(line)
RECURSIVE WriteLines(_)
WriteLines(lines) ==
    IF lines = <<>> THEN Written(<<>>, FALSE)
    ELSE LET h == WriteShell(Head(lines), "shell") IN
         IF h.err # "" THEN h
         ELSE LET r == WriteLines(Tail(lines)) IN
              [out |-> h.out \o r.out, escaped |-> FALSE, err |-> r.err]

\* platform_name()
Platforms == {"windows", "linux", "darwin"}

CmdPrefix == <<"c", "m", "d", " ", "/", "s", " ", "/", "c", " ", "\"">>
CmdSuffix == <<"\"">>

\* The test that guards both the prefix and the suffix of use().
UseWraps_AnyPlatform(c, platform) == NeedsShell(c)
UseWraps(c, platform) == NeedsShell(c) /\ platform = "windows"

\* Commands.use(): the text of the literal it returns, or the error of the
\* write that raised.
Use(c, platform) ==
    LET r == WriteLines(JoinCommands(GlobalEnv(c.environ) \o c.commands))
    IN IF r.err # "" THEN Raised(<<>>, r.err)
       ELSE Written((IF UseWraps(c, platform) THEN CmdPrefix ELSE <<>>)
                      \o r.out
                      \o (IF UseWraps(c, platform) THEN CmdSuffix ELSE <<>>),
                    TRUE)

----------------------------------------------------------------------------
(* Rendering commands: the specification SpecUse                           *)

MaxUseCommands == 2     \* command lines of a rendered Commands object
MaxUseEnviron == 2      \* bindings of its environment

\* A list line with an argument that needs quoting, a list line that
\* starts with a variable reference, a shell_list and a string.
UseLines ==
    {Line("list", <<PlainStr(<<"c", "c">>), PlainStr(<<"a", " ", "b">>)>>),
     Line("list", <<VariableUse(<<"l", "d">>), PlainStr(<<"-", "o">>)>>),
     Line("shell_list", <<PlainStr(<<"a">>), ShellLiteral(<<"|">>),
                          PlainStr(<<"b">>)>>),
     Line("str", <<PlainStr(<<"m", "a", "k", "e", " ", "a", "l", "l">>)>>)}

UseCommandsArgs == StringsUpTo(UseLines, MaxUseCommands)

UseBindings == {<<<<"A">>, <<"1">>>>, <<<<"B">>, <<"x", " ", "y">>>>}

UseEnvironArgs ==
    {x \in StringsUpTo(UseBindings, MaxUseEnviron) :
        \A i, j \in 1..Len(x) : x[i][1] = x[j][1] => i = j}

\* Commands(commands, environ), with arguments whose text is known
UseCommandsNew ==
    \E commands \in UseCommandsArgs, environ \in UseEnvironArgs :
        /\ obj' = IF CommandsInitRaises(commands) THEN obj
                  ELSE Commands(commands, environ)
        /\ last' = [NoCall EXCEPT !.op = "Commands",
                                  !.err = IF CommandsInitRaises(commands)
                                          THEN "no_command" ELSE ""]
        /\ UNCHANGED <<min_version, var_table, variables, rules, builds,
                       build_outputs, defaults, requested, stream>>

\* obj.use() on a platform
CommandsUse ==
    /\ obj # NoObject
    /\ \E platform \in Platforms :
         LET r == Use(obj, platform) IN
         last' = [NoCall EXCEPT !.op = "use", !.platform = platform,
                                !.err = r.err, !.ret = r.out]
    /\ UNCHANGED <<min_version, var_table, variables, rules, builds,
                   build_outputs, defaults, obj, requested, stream>>

NextUse == UseCommandsNew \/ CommandsUse

SpecUse == Init /\ [][NextUse]_vars

StartsWith(text, prefix) ==
    Len(text) >= Len(prefix) /\ SubSeq(text, 1, Len(prefix)) = prefix

EndsWith(text, suffix) ==
    /\ Len(text) >= Len(suffix)
    /\ SubSeq(text, Len(text) - Len(suffix) + 1, Len(text)) = suffix

\* The text use() writes between the prefix and the suffix.
UseBody(c) == WriteLines(JoinCommands(GlobalEnv(c.environ) \o c.commands)).out

\* C11: use() emits the prefix 'cmd /s /c "' and the suffix '"' iff
\* needs_shell is true and the platform is windows, and then the text is
\* prefix, body, suffix; on every other platform, and when no shell is
\* needed, the text is the body alone and has neither; the two are emitted
\* together.
C11_WindowsWrapper ==
    last.op = "use"
      => /\ last.err = ""
         /\ StartsWith(last.ret, CmdPrefix)
              <=> (NeedsShell(obj) /\ last.platform = "windows")
         /\ StartsWith(last.ret, CmdPrefix) <=> EndsWith(last.ret, CmdSuffix)
         /\ last.ret = IF NeedsShell(obj) /\ last.platform = "windows"
                       THEN CmdPrefix \o UseBody(obj) \o CmdSuffix
                       ELSE UseBody(obj)

\* C11 witness: a command of two lines with an environment was rendered on
\* windows with the wrapper, and so begins with 'cmd /s /c "export '.
C11_Witness ==
    /\ last.op = "use"
    /\ last.platform = "windows"
    /\ Len(obj.commands) = 2
    /\ Len(obj.environ) > 0
    /\ StartsWith(last.ret, CmdPrefix \o Export)
    /\ EndsWith(last.ret, CmdSuffix)

\* The segments the claim names: 'export NAME=VALUE' for each binding, name
\* and value shell-quoted where they need it, then each command line.
C12_Segments(c) ==
    [i \in 1..(Len(c.environ) + Len(c.commands)) |->
        IF i <= Len(c.environ)
        THEN Export \o <<" ">> \o Quote(c.environ[i][1]) \o <<"=">>
                \o Quote(c.environ[i][2])
        ELSE WriteShell(c.commands[i - Len(c.environ)], "shell").out]

RECURSIVE C12_Joined(_)
C12_Joined(segments) ==
    IF segments = <<>> THEN <<>>
    ELSE IF Len(segments) = 1 THEN Head(segments)
    ELSE Head(segments) \o AndAnd \o C12_Joined(Tail(segments))

\* C12: the rendered command (inside the windows wrapper, when there is
\* one) is one 'export NAME=VALUE' segment per environment binding, in the
\* mapping's insertion order and before every command line, then the
\* command lines in their order, consecutive segments separated by exactly
\* ' && ' with no separator before the first or after the last.
C12_SegmentsInOrder ==
    last.op = "use"
      => /\ last.err = ""
         /\ LET body == IF NeedsShell(obj) /\ last.platform = "windows"
                        THEN SubSeq(last.ret, Len(CmdPrefix) + 1,
                                    Len(last.ret) - Len(CmdSuffix))
                        ELSE last.ret
            IN body = C12_Joined(C12_Segments(obj))

\* C12 witness: the bindings A=1 and B='x y', declared in that order, and
\* two command lines were rendered off windows as
\* export A=1 && export B='x y' && cc 'a b' && ...
C12_Witness ==
    /\ last.op = "use"
    /\ last.platform = "linux"
    /\ Len(obj.environ) = 2
    /\ Len(obj.commands) = 2
    /\ StartsWith(last.ret,
                  <<"e", "x", "p", "o", "r", "t", " ", "A", "=", "1",
                    " ", "&", "&", " ",
                    "e", "x", "p", "o", "r", "t", " ", "B", "=", "'", "x",
                    " ", "y", "'",
                    " ", "&", "&", " ",
                    "c", "c", " ", "'", "a", " ", "b", "'",
                    " ", "&", "&", " ">>)

----------------------------------------------------------------------------
(* The command a rule stores: the specification SpecStore                  *)

\* A list line that names a tool, a shell_list and a string.
StoreLines ==
    {Line("list", <<Tool(CC, "gcc"), Str("-c")>>),
     Line("shell_list", <<Str("a"), Str("|"), Str("b")>>),
     Line("str", <<Str("make all")>>)}

StoreCommandsArgs == StringsUpTo(StoreLines, MaxCommands) \ {<<>>}

\* Commands(commands, environ), before the rule that uses it is declared.
StoreCommandsNew ==
    /\ rules = <<>>
    /\ \E commands \in StoreCommandsArgs, environ \in EnvironArgs :
         obj' = Commands(commands, EnvironOrEmpty(environ))
    /\ last' = [NoCall EXCEPT !.op = "Commands"]
    /\ UNCHANGED <<min_version, var_table, variables, rules, builds,
                   build_outputs, defaults, requested, stream>>

\* rule(name, obj): obj keeps the object as it was constructed; the
\* conversion of its tool arguments, which rule() makes in the object
\* itself, is ConvertArgs(obj).
StoreRuleDecl ==
    /\ obj # NoObject
    /\ \E name \in {CC, BadName} :
         RuleCall(name, obj, NoValue, NoValue, FALSE, NoPool, FALSE)

NextStore == StoreCommandsNew \/ StoreRuleDecl

SpecStore == Init /\ [][NextStore]_vars

\* The command of the rule declared last.
LastStored == rules[Len(rules)].rule.command

\* C13: after a successful rule() the stored command is the bare command
\* line commands[0] of the resolved (converted) Commands object iff that
\* object's needs_shell is false, and is the whole resolved object
\* otherwise; so a bare stored command comes from an object with no
\* environment binding and a single command line.
C13_StoredCommand ==
    (last.op = "rule" /\ last.err = "")
      => LET resolved == ConvertArgs(obj) IN
         /\ LastStored.tag = "line" <=> ~NeedsShell(resolved)
         /\ LastStored.tag = "line"
              => /\ LastStored.line = resolved.commands[1]
                 /\ LastStored.cmds = NoCommands
                 /\ resolved.environ = <<>>
                 /\ Len(resolved.commands) = 1
         /\ LastStored.tag # "line"
              => /\ LastStored.tag = "Commands"
                 /\ LastStored.cmds = resolved
                 /\ LastStored.line = NoLine

\* C13 witness: a rule stores the bare line of a one-line command without
\* environment, its tool argument converted to the tool's variable.
C13_Witness ==
    /\ last.op = "rule" /\ last.err = ""
    /\ LastStored.tag = "line"
    /\ LastStored.line = Line("list", <<VarRef(Var(CC)), Str("-c")>>)
    /\ obj.commands = <<Line("list", <<Tool(CC, "gcc"), Str("-c")>>)>>

\* A rule stores the whole object of a one-line command because the object
\* has an environment binding.
C13_WholeStored ==
    /\ last.op = "rule" /\ last.err = ""
    /\ LastStored.tag = "Commands"
    /\ Len(LastStored.cmds.commands) = 1
    /\ LastStored.cmds.commands[1].kind = "list"
    /\ Len(LastStored.cmds.environ) = 1

----------------------------------------------------------------------------
(* Writer.escape_str: the specification SpecEscape                         *)

MaxEscapeLen == 3   \* length of the strings given to escape_str

\* A plain character and the three that some position escapes.
EscapeAlphabet == {"a", ":", " ", "$"}

EscapeArgs == StringsUpTo(EscapeAlphabet, MaxEscapeLen)

\* Writer.escape_str(string, syntax)
EscapeStrCall ==
    /\ \E string \in EscapeArgs, syntax \in Syntaxes :
         last' = [NoCall EXCEPT
                    !.op = "escape_str", !.thing = PlainStr(string),
                    !.syntax = syntax,
                    !.err = IF EscapeStrRaises(string)
                            THEN "illegal_newline" ELSE "",
                    !.ret = IF EscapeStrRaises(string) THEN <<>>
                            ELSE EscapeStr(string, syntax)]
    /\ UNCHANGED <<min_version, var_table, variables, rules, builds,
                   build_outputs, defaults, obj, requested, stream>>

NextEscape == EscapeStrCall

SpecEscape == Init /\ [][NextEscape]_vars

\* string with each of its characters that is in chars preceded by '$'.
RECURSIVE C14_Prefixed(_, _)
C14_Prefixed(string, chars) ==
    IF string = <<>> THEN <<>>
    ELSE (IF Head(string) \in chars THEN <<"$">> ELSE <<>>)
            \o <<Head(string)>> \o C14_Prefixed(Tail(string), chars)

\* The characters each position is said to escape.
C14_Escaped(syntax) ==
    CASE syntax = "output" -> {":", " ", "$"}
      [] syntax = "input" -> {" ", "$"}
      [] syntax = "shell" -> {"$"}
      [] syntax = "clean" -> {}

\* C14 as stated: escape_str of a newline-free string prefixes ':', space
\* and '$' with '$' in output position, space and '$' in input position,
\* only '$' in shell position, and returns the string unchanged in clean
\* position.
C14_AsStated ==
    last.op = "escape_str"
      => /\ last.err = ""
         /\ last.ret = C14_Prefixed(last.thing.s, C14_Escaped(last.syntax))

\* C14, amended: as stated for the output, input and shell positions; in
\* clean position escape_str doubles '$' exactly as in shell position and
\* leaves every other character unchanged.
C14_EscapeStr ==
    last.op = "escape_str"
      => /\ last.err = ""
         /\ last.ret =
              C14_Prefixed(last.thing.s,
                           IF last.syntax = "clean" THEN {"$"}
                           ELSE C14_Escaped(last.syntax))

\* C14 witness: 'a: ' was escaped in output position to 'a$:$ '.
C14_Witness ==
    /\ last.op = "escape_str"
    /\ last.syntax = "output"
    /\ last.thing.s = <<"a", ":", " ">>
    /\ last.ret = <<"a", "$", ":", "$", " ">>

----------------------------------------------------------------------------
(* Writer.write: the specification SpecWrite                               *)

MaxStream == 1      \* a write is explored on a stream shorter than this

\* The texts of the fragments written: plain, with a space, with ':' and
\* '$', with a single quote, with a newline.
WriteTexts ==
    {<<"a">>, <<"a", " ", "b">>, <<":", "$">>, <<"i", "'", "s">>,
     <<"a", "\n", "b">>}

ABO == <<"a", "/", "b", ".", "o">>

\* Paths below the build directory, the source directory and an install
\* root: the path a/b.o, a path whose suffix has characters to escape, a
\* root itself, a path with a newline.
WritePaths ==
    {Path(ABO, "builddir"), Path(ABO, "srcdir"), Path(ABO, "bindir"),
     Path(<<"a", " ", "b", ":", "$">>, "srcdir"),
     Path(<<"a", " ", "b", ":", "$">>, "builddir"),
     Path(<<>>, "srcdir"), Path(<<>>, "builddir"),
     Path(<<"a", "\n", "b">>, "srcdir")}

\* Concatenations: of a string and a shell_literal, with a newline in the
\* second part, with a newline in a literal part, and a nested one.
WriteJbos ==
    {Jbos(<<PlainStr(<<"a", " ", "b">>), ShellLiteral(<<"=">>),
            PlainStr(<<"a">>)>>),
     Jbos(<<PlainStr(<<"a">>), ShellLiteral(<<"a", "\n", "b">>)>>),
     Jbos(<<PlainStr(<<"a">>), Literal(<<"a", "\n", "b">>)>>),
     Jbos(<<Literal(<<":">>), Jbos(<<PlainStr(<<"a", "\n", "b">>)>>)>>),
     Jbos(<<>>)}

WriteThings ==
    {Literal(t) : t \in WriteTexts} \cup {ShellLiteral(t) : t \in WriteTexts}
      \cup {PlainStr(t) : t \in WriteTexts} \cup WritePaths \cup WriteJbos

\* Writer(StringIO())
WriterNew ==
    /\ stream' = <<>>
    /\ last' = [NoCall EXCEPT !.op = "Writer"]
    /\ UNCHANGED <<min_version, var_table, variables, rules, builds,
                   build_outputs, defaults, obj, requested>>

\* writer.write(thing, syntax): last.ret is the text this call wrote,
\* last.retb the value it returned.
WriterWrite ==
    /\ Len(stream) < MaxStream
    /\ \E thing \in WriteThings, syntax \in Syntaxes :
         LET r == Write(thing, syntax, "quote_info") IN
         /\ stream' = stream \o r.out
         /\ last' = [NoCall EXCEPT !.op = "write", !.thing = thing,
                                   !.syntax = syntax, !.err = r.err,
                                   !.ret = r.out, !.retb = r.escaped]
    /\ UNCHANGED <<min_version, var_table, variables, rules, builds,
                   build_outputs, defaults, obj, requested>>

NextWrite == WriterNew \/ WriterWrite

SpecWrite == Init /\ [][NextWrite]_vars

\* The text of a fragment: its string, the suffix of a path, the texts of
\* the parts of a concatenation.
RECURSIVE FragmentText(_)
RECURSIVE FragmentTexts(_)
FragmentText(thing) ==
    IF thing.t = "jbos" THEN FragmentTexts(thing.bits) ELSE thing.s

FragmentTexts(bits) ==
    IF bits = <<>> THEN <<>>
    ELSE FragmentText(Head(bits)) \o FragmentTexts(Tail(bits))

\* C15: Writer.write of a fragment of any variant, in any position, raises
\* when the fragment's text contains a newline, and no newline is ever in
\* the stream.
C15_NewlineRejected ==
    /\ (last.op = "write" /\ HasChar(FragmentText(last.thing), {"\n"}))
         => last.err = "illegal_newline"
    /\ ~HasChar(stream, {"\n"})

\* C18 as stated: a shell_literal is written with its ':' and space
\* unchanged in every position (only '$' is doubled), is never wrapped in
\* single quotes, and the write reports it as already escaped.
C18_AsStated ==
    (/\ last.op = "write"
     /\ last.thing.t = "shell_literal"
     /\ ~HasChar(last.thing.s, {"\n"}))
      => /\ last.err = ""
         /\ last.retb
         /\ last.ret = C14_Prefixed(last.thing.s, {"$"})

\* C18, amended: a shell_literal is never shell-quoted, whatever its
\* characters, and the write reports it as already escaped; it is escaped
\* for the position it is written in like any string: ':', space and '$'
\* are prefixed with '$' in output position, space and '$' in input
\* position, and only '$' is doubled in shell and clean position.
C18_ShellLiteral ==
    (/\ last.op = "write"
     /\ last.thing.t = "shell_literal"
     /\ ~HasChar(last.thing.s, {"\n"}))
      => /\ last.err = ""
         /\ last.retb
         /\ last.ret =
              C14_Prefixed(last.thing.s,
                           IF last.syntax = "clean" THEN {"$"}
                           ELSE C14_Escaped(last.syntax))

\* C18 witness: the shell_literal 'a b' was written in shell position as
\* 'a b', without quotes, and reported as escaped.
C18_Witness ==
    /\ last.op = "write"
    /\ last.thing = ShellLiteral(<<"a", " ", "b">>)
    /\ last.syntax = "shell"
    /\ last.ret = <<"a", " ", "b">>
    /\ last.retb

\* The variable reference '${name}' of a root.
C19_Token(root) == <<"$", "{">> \o RootName(root) \o <<"}">>

----------------------------------------------------------------------------
(* Shell quoting and splitting: the specification SpecQuote                *)

MaxQuoteLen == 3    \* length of the strings given to quote_info

\* A word character, a safe punctuation character, and the space, the two
\* quotes and the backslash.
QuoteAlphabet == {"a", ":", " ", "'", "\"", "\\"}

QuoteArgs == StringsUpTo(QuoteAlphabet, MaxQuoteLen)

\* quote_info(s): last.ret is the text returned, last.retb the flag.  A run
\* quotes one string and splits the result; the functions keep no state.
QuoteInfoCall ==
    /\ last.op = "init"
    /\ \E s \in QuoteArgs :
         last' = [NoCall EXCEPT !.op = "quote_info", !.thing = PlainStr(s),
                                !.ret = QuoteInfo(s)[1],
                                !.retb = QuoteInfo(s)[2]]
    /\ UNCHANGED <<min_version, var_table, variables, rules, builds,
                   build_outputs, defaults, obj, requested, stream>>

\* split(quote(s)), for the string s quoted last: quote(s) is the text
\* quote_info(s) returned; last.outs is the list split returns.
SplitQuoted ==
    /\ last.op = "quote_info"
    /\ LET r == Split(Quote(last.thing.s)) IN
       last' = [last EXCEPT !.op = "split", !.outs = r.tokens,
                            !.err = r.err]
    /\ UNCHANGED <<min_version, var_table, variables, rules, builds,
                   build_outputs, defaults, obj, requested, stream>>

NextQuote == QuoteInfoCall \/ SplitQuoted

SpecQuote == Init /\ [][NextQuote]_vars

\* The safe set [A-Za-z0-9_@%+:,./-]
C16_SafeSet ==
    Lower \cup Upper \cup Digits
      \cup {"_", "@", "%", "+", ":", ",", ".", "/", "-"}

\* s with every single quote replaced by the five characters '"'"'
RECURSIVE C16_QuotesReplaced(_)
C16_QuotesReplaced(s) ==
    IF s = <<>> THEN <<>>
    ELSE (IF Head(s) = "'" THEN <<"'", "\"", "'", "\"", "'">>
          ELSE <<Head(s)>>) \o C16_QuotesReplaced(Tail(s))

\* C16: quote_info(s) reports that quoting was required iff s has a
\* character outside the safe set; when it was not (the empty string
\* included) the result is s; when it was, the result is s with every
\* single quote replaced by '"'"' and the whole in one pair of single
\* quotes.
C16_QuoteInfo ==
    last.op = "quote_info"
      => LET s == last.thing.s IN
         /\ last.retb <=> \E i \in 1..Len(s) : s[i] \notin C16_SafeSet
         /\ ~last.retb => last.ret = s
         /\ last.retb
              => last.ret = <<"'">> \o C16_QuotesReplaced(s) \o <<"'">>

\* C16 witness: a' was quoted as 'a'"'"'' and reported as quoted.
C16_Witness ==
    /\ last.op = "quote_info"
    /\ last.thing.s = <<"a", "'">>
    /\ last.retb
    /\ last.ret = <<"'", "a", "'", "\"", "'", "\"", "'", "'">>

\* C17: for every string s that contains a single quote or a space,
\* quote(s) begins and ends with a single quote and split(quote(s)) is the
\* one-element list [s].
C17_RoundTrip ==
    (last.op = "split" /\ HasChar(last.thing.s, {"'", " "}))
      => /\ last.ret = Quote(last.thing.s)
         /\ StartsWith(last.ret, <<"'">>)
         /\ EndsWith(last.ret, <<"'">>)
         /\ Len(last.ret) >= 2
         /\ last.err = ""
         /\ last.outs = <<last.thing.s>>

\* C17 witness: the string ' \ (quote, space, backslash) was quoted and
\* split back into itself.
C17_Witness ==
    /\ last.op = "split"
    /\ last.thing.s = <<"'", " ", "\\">>
    /\ last.err = ""
    /\ last.outs = <<<<"'", " ", "\\">>>>

----------------------------------------------------------------------------
(* NinjaFile.write                                                         *)

\* The characters of the strings the declarations are given as values,
\* arguments, outputs and inputs.
Text(s) ==
    CASE s = "1" -> <<"1">>
      [] s = "2" -> <<"2">>
      [] s = "gcc" -> <<"g", "c", "c">>
      [] s = "cc" -> <<"c", "c">>
      [] s = "-c" -> <<"-", "c">>
      [] s = "echo done" -> <<"e", "c", "h", "o", " ", "d", "o", "n", "e">>
      [] s = "LANG" -> <<"L", "A", "N", "G">>
      [] s = "C" -> <<"C">>
      [] s = "$out.d" -> <<"$", "o", "u", "t", ".", "d">>
      [] s = "console" -> <<"c", "o", "n", "s", "o", "l", "e">>
      [] s = "a.o" -> <<"a", ".", "o">>
      [] s = "b.o" -> <<"b", ".", "o">>
      [] s = "a.c" -> <<"a", ".", "c">>
      [] s = "a.h" -> <<"a", ".", "h">>
      [] s = "dir" -> <<"d", "i", "r">>
      [] s = "main.o" -> <<"m", "a", "i", "n", ".", "o">>
      [] s = "main.c" -> <<"m", "a", "i", "n", ".", "c">>
      [] s = "$in" -> <<"$", "i", "n">>
      [] s = "-o" -> <<"-", "o">>
      [] s = "$out" -> <<"$", "o", "u", "t">>
      [] s = "a b" -> <<"a", " ", "b">>
      [] s = "c:d" -> <<"c", ":", "d">>
      [] s = "$x" -> <<"$", "x">>

\* safe_str.safe_str of an argument of a command line: a string is itself,
\* a Variable is the literal Variable.use() returns.
ArgFragment(a) ==
    IF a.t = "var" THEN VariableUse(a.n) ELSE PlainStr(Text(a.s))

FragmentLine(line) ==
    Line(line.kind, [i \in 1..Len(line.args) |-> ArgFragment(line.args[i])])

FragmentCommands(c) ==
    Commands([i \in 1..Len(c.commands) |-> FragmentLine(c.commands[i])],
             [i \in 1..Len(c.environ) |->
                 <<Text(c.environ[i][1]), Text(c.environ[i][2])>>])

\* str(Version): the components in decimal, joined by '.'
DigitChar(d) ==
    CASE d = 0 -> "0" [] d = 1 -> "1" [] d = 2 -> "2" [] d = 3 -> "3"
      [] d = 4 -> "4" [] d = 5 -> "5" [] d = 6 -> "6" [] d = 7 -> "7"
      [] d = 8 -> "8" [] d = 9 -> "9"

RECURSIVE Decimal(_)
Decimal(n) ==
    IF n < 10 THEN <<DigitChar(n)>>
    ELSE Decimal(n \div 10) \o <<DigitChar(n % 10)>>

RECURSIVE VersionStr(_)
VersionStr(v) ==
    IF Len(v) = 1 THEN Decimal(v[1])
    ELSE Decimal(v[1]) \o <<".">> \o VersionStr(Tail(v))

\* _comment_tmpl.format(self._bfgfile) + '\n\n', for the file build.bfg
Header ==
    <<"#", " ", "D", "o", " ", "n", "o", "t", " ", "e", "d", "i", "t", " ",
      "t", "h", "i", "s", " ", "f", "i", "l", "e", "!", " ", "I", "t", " ",
      "w", "a", "s", " ", "a", "u", "t", "o", "m", "a", "t", "i", "c", "a",
      "l", "l", "y", " ", "g", "e", "n", "e", "r", "a", "t", "e", "d", " ",
      "b", "y", " ", "b", "f", "g", "9", "0", "0", "0", ".", "\n">> \o
    <<"#", " ", "I", "n", "s", "t", "e", "a", "d", ",", " ", "y", "o", "u",
      " ", "s", "h", "o", "u", "l", "d", " ", "e", "d", "i", "t", " ", "t",
      "h", "e", " ", "s", "o", "u", "r", "c", "e", " ", "f", "i", "l", "e",
      " ", "t", "h", "a", "t", " ", "c", "r", "e", "a", "t", "e", "d", " ",
      "t", "h", "i", "s", ":", "\n">> \o
    <<"#", " ", "b", "u", "i", "l", "d", ".", "b", "f", "g", "\n">> \o
    <<"\n">>

\* _write_variable(out, name, value, syntax, indent), given the text `value'
\* that write_shell wrote for the value.
WriteVariable(name, value, indent) ==
    (IF indent = 1 THEN <<" ", " ">> ELSE <<>>)
      \o name \o <<" ", "=", " ">> \o value \o <<"\n">>

\* write_shell(value, syntax) of a string: it is not iterable and is
\* written without shell quoting.
WriteValue(value, syntax) == Write(PlainStr(Text(value)), syntax, "none").out

\* write_shell(rule.command): a bare command line is written argument by
\* argument, a Commands object as the literal its use() returns.
WriteCommand(command, platform) ==
    IF command.tag = "line"
    THEN WriteShell(FragmentLine(command.line), "shell").out
    ELSE Use(FragmentCommands(command.cmds), platform).out

RuleLine == <<"r", "u", "l", "e", " ">>

\* `if rule.depfile:' and the like: None and the empty string are false.
Truthy(value) == value # NoValue /\ value # ""

\* _write_rule(out, name, rule)
WriteRule_PoolBeforeGenerator(name, rule, platform) ==
    LET sub(key, value) == WriteVariable(Var(key), value, 1) IN
    RuleLine \o name \o <<"\n">>
      \o sub(<<"c", "o", "m", "m", "a", "n", "d">>,
             WriteCommand(rule.command, platform))
      \o (IF Truthy(rule.depfile)
          THEN sub(<<"d", "e", "p", "f", "i", "l", "e">>,
                   WriteValue(rule.depfile, "shell"))
          ELSE <<>>)
      \o (IF Truthy(rule.deps)
          THEN sub(<<"d", "e", "p", "s">>, WriteValue(rule.deps, "shell"))
          ELSE <<>>)
      \o (IF Truthy(rule.pool)
          THEN sub(<<"p", "o", "o", "l">>, WriteValue(rule.pool, "shell"))
          ELSE <<>>)
      \o (IF rule.generator
          THEN sub(<<"g", "e", "n", "e", "r", "a", "t", "o", "r">>,
                   WriteValue("1", "shell"))
          ELSE <<>>)
      \o (IF rule.restat
          THEN sub(<<"r", "e", "s", "t", "a", "t">>, WriteValue("1", "shell"))
          ELSE <<>>)
WriteRule(name, rule, platform) ==
    RuleLine \o name \o <<"\n">>
      \o WriteVariable(Var(<<"c", "o", "m", "m", "a", "n", "d">>),
                       WriteCommand(rule.command, platform), 1)
      \o (IF Truthy(rule.depfile)
          THEN WriteVariable(Var(<<"d", "e", "p", "f", "i", "l", "e">>),
                             WriteValue(rule.depfile, "shell"), 1)
          ELSE <<>>)
      \o (IF Truthy(rule.deps)
          THEN WriteVariable(Var(<<"d", "e", "p", "s">>),
                             WriteValue(rule.deps, "shell"), 1)
          ELSE <<>>)
      \o (IF rule.generator
          THEN WriteVariable(Var(<<"g", "e", "n", "e", "r", "a", "t", "o",
                                   "r">>),
                             WriteValue("1", "shell"), 1)
          ELSE <<>>)
      \o (IF Truthy(rule.pool)
          THEN WriteVariable(Var(<<"p", "o", "o", "l">>),
                             WriteValue(rule.pool, "shell"), 1)
          ELSE <<>>)
      \o (IF rule.restat
          THEN WriteVariable(Var(<<"r", "e", "s", "t", "a", "t">>),
                             WriteValue("1", "shell"), 1)
          ELSE <<>>)

\* The strings of a list, as the things write_each is given.
Things(items) == [i \in 1..Len(items) |-> PlainStr(Text(items[i]))]

BuildLine == <<"b", "u", "i", "l", "d", " ">>

RECURSIVE WriteOverrides(_)
WriteOverrides(overrides) ==
    IF overrides = <<>> THEN <<>>
    ELSE WriteVariable(Head(overrides)[1],
                       WriteValue(Head(overrides)[2], "shell"), 1)
           \o WriteOverrides(Tail(overrides))

\* _write_build(out, build)
WriteBuild_NoNewline(build) ==
    BuildLine
      \o WriteEach(Things(build.outputs), "output", Space, <<>>, <<>>).out
      \o <<":", " ">> \o build.rule
      \o WriteEach(Things(build.inputs), "input", Space,
                   <<Literal(<<" ">>)>>, <<>>).out
      \o WriteEach(Things(build.implicit), "input", Space,
                   <<Literal(<<" ", "|", " ">>)>>, <<>>).out
      \o WriteEach(Things(build.order_only), "input", Space,
                   <<Literal(<<" ", "|", "|", " ">>)>>, <<>>).out
      \o WriteOverrides(build.variables)
WriteBuild(build) ==
    BuildLine
      \o WriteEach(Things(build.outputs), "output", Space, <<>>, <<>>).out
      \o <<":", " ">> \o build.rule
      \o WriteEach(Things(build.inputs), "input", Space,
                   <<Literal(<<" ">>)>>, <<>>).out
      \o WriteEach(Things(build.implicit), "input", Space,
                   <<Literal(<<" ", "|", " ">>)>>, <<>>).out
      \o WriteEach(Things(build.order_only), "input", Space,
                   <<Literal(<<" ", "|", "|", " ">>)>>, <<>>).out
      \o <<"\n">>
      \o WriteOverrides(build.variables)

RequiredVersion ==
    <<"n", "i", "n", "j", "a", "_", "r", "e", "q", "u", "i", "r", "e", "d",
      "_", "v", "e", "r", "s", "i", "o", "n">>

\* The version declaration and its blank line, when _min_version is set.
WriteMinVersion(version) ==
    IF version # NoVersion
    THEN WriteVariable(Var(RequiredVersion),
                       Write(PlainStr(VersionStr(version)), "shell",
                             "none").out, 0)
           \o <<"\n">>
    ELSE <<>>

\* The variables of one section and, when there are any, a blank line.
RECURSIVE WriteEntries(_, _)
WriteEntries(entries, syntax) ==
    IF entries = <<>> THEN <<>>
    ELSE WriteVariable(Head(entries)[1],
                       WriteValue(Head(entries)[2], syntax), 0)
           \o WriteEntries(Tail(entries), syntax)

\* syntax = Syntax.clean if section == Section.path else Syntax.shell
SectionSyntax_AlwaysShell(section) == "shell"
SectionSyntax(section) == IF section = "path" THEN "clean" ELSE "shell"

WriteSection(lists, section) ==
    WriteEntries(lists[section], SectionSyntax(section))
      \o (IF lists[section] # <<>> THEN <<"\n">> ELSE <<>>)

\* for section in Section: ...
SectionOrder_OtherFirst == <<"other", "path", "command", "flags">>
SectionOrder == Sections

RECURSIVE WriteSections(_, _)
WriteSections(lists, order) ==
    IF order = <<>> THEN <<>>
    ELSE WriteSection(lists, Head(order)) \o WriteSections(lists, Tail(order))

RECURSIVE WriteRules(_, _)
WriteRules(table, platform) ==
    IF table = <<>> THEN <<>>
    ELSE WriteRule(Head(table).name, Head(table).rule, platform) \o <<"\n">>
           \o WriteRules(Tail(table), platform)

RECURSIVE WriteBuilds(_)
WriteBuilds(edges) ==
    IF edges = <<>> THEN <<>>
    ELSE WriteBuild(Head(edges)) \o <<"\n">> \o WriteBuilds(Tail(edges))

DefaultLine == <<"d", "e", "f", "a", "u", "l", "t", " ">>

WriteDefaults_Always(paths) ==
    DefaultLine \o WriteEach(Things(paths), "input", Space, <<>>, <<>>).out
      \o <<"\n">>
WriteDefaults(paths) ==
    IF paths # <<>>
    THEN DefaultLine
           \o WriteEach(Things(paths), "input", Space, <<>>, <<>>).out
           \o <<"\n">>
    ELSE <<>>

\* NinjaFile.write(out): the text written to the stream.
WriteFile(platform) ==
    Header
      \o WriteMinVersion(min_version)
      \o WriteSections(variables, SectionOrder)
      \o WriteRules(rules, platform)
      \o WriteBuilds(builds)
      \o WriteDefaults(defaults)

----------------------------------------------------------------------------
(* Declaring in any order, then writing: the specification SpecEmit        *)

MaxDefaults == 1    \* default() calls before the exploration stops

\* name, value and section of the variable() calls: two variables of the
\* section other, one of path, one of flags.
EmitVarArgs ==
    {<<<<"a">>, "1", "other">>, <<<<"b">>, "2", "other">>,
     <<<<"p">>, "1", "path">>, <<<<"f">>, "2", "flags">>}

\* The file is written once, after the declarations.
Unwritten == stream = <<>>

EmitVariableDecl ==
    /\ Unwritten
    /\ \E a \in EmitVarArgs : VariableCall("variable", a[1], a[2], a[3], TRUE)

EmitMinVersion ==
    /\ Unwritten
    /\ MinVersionCall(<<"1", ".", "3">>)

\* rule('cc', ..., pool='console') with a command that names a tool and
\* needs a shell, or rule('ld', ...) with a plain command line.
EmitRuleDecl ==
    /\ Unwritten
    /\ \E name \in {CC, LD} :
         LET pool == IF name = CC THEN "console" ELSE NoPool
             a == RuleArgs(pool)
         IN RuleCall(name, a[1], a[2], a[3], a[4], pool, a[5])

\* build('a.o', 'cc', ...) or build(['b.o'], 'phony')
EmitBuildDecl ==
    /\ Unwritten
    /\ \E e \in {<<Scalar("a.o"), CC>>, <<List(<<"b.o">>), Phony>>} :
         LET x == BuildExtras(e[2])
         IN BuildCall(e[1], e[2], x[1], x[2], x[3], x[4])

EmitDefault ==
    /\ Unwritten
    /\ Len(defaults) < MaxDefaults
    /\ DefaultCall(<<"a.o">>)

\* file.write(out), on a platform
EmitWrite ==
    /\ Unwritten
    /\ \E platform \in {"windows", "linux"} :
         /\ stream' = WriteFile(platform)
         /\ last' = [NoCall EXCEPT !.op = "write_file",
                                   !.platform = platform]
    /\ UNCHANGED <<min_version, var_table, variables, rules, builds,
                   build_outputs, defaults, obj, requested>>

NextEmit ==
    \/ EmitVariableDecl
    \/ EmitMinVersion
    \/ EmitRuleDecl
    \/ EmitBuildDecl
    \/ EmitDefault
    \/ EmitWrite

SpecEmit == Init /\ [][NextEmit]_vars

\* The lines of a text: its pieces before each newline.
Newlines(text) ==
    SelectSeq([i \in 1..Len(text) |-> i], LAMBDA i : text[i] = "\n")

TextLines(text) ==
    LET ends == Newlines(text) IN
    [k \in 1..Len(ends) |->
        SubSeq(text, IF k = 1 THEN 1 ELSE ends[k - 1] + 1, ends[k] - 1)]

\* The statements of a text, in order: its lines other than the comments,
\* the blank lines and the indented lines of a rule or an edge.
Statements(text) ==
    SelectSeq(TextLines(text),
              LAMBDA l : /\ l # <<>>
                         /\ ~StartsWith(l, <<"#">>)
                         /\ ~StartsWith(l, <<" ", " ">>))

\* The kind of a statement, by its keyword.
Kind(l) ==
    IF StartsWith(l, RuleLine) THEN "rule"
    ELSE IF StartsWith(l, BuildLine) THEN "build"
    ELSE IF StartsWith(l, DefaultLine) THEN "default"
    ELSE "variable"

\* The word a line begins with after skip characters, up to the next
\* space or ':'.
RECURSIVE Word(_, _)
Word(l, i) ==
    IF i > Len(l) \/ l[i] \in {" ", ":"} THEN <<>>
    ELSE <<l[i]>> \o Word(l, i + 1)

\* The names of the variables of the sections, in the order path, command,
\* flags, other and in declaration order within a section.
C20_SectionNames(order) ==
    Flatten([k \in 1..Len(order) |->
                [i \in 1..Len(variables[order[k]]) |->
                    variables[order[k]][i][1]]])

Rank(kind) ==
    CASE kind = "variable" -> 1 [] kind = "rule" -> 2 [] kind = "build" -> 3
      [] kind = "default" -> 4

\* C20: whatever order the declarations were made in, the emitted file has
\* the required-version declaration (present iff the watermark is set)
\* before every variable assignment, the assignments by section in the
\* order path, command, flags, other and in declaration order within a
\* section, then the rule blocks in insertion order, then the build edges
\* in insertion order, then the default line last.
C20_EmittedOrder ==
    last.op = "write_file"
      => LET stmts == Statements(stream)
             of(kind) == SelectSeq(stmts, LAMBDA l : Kind(l) = kind)
             assigned == of("variable")
             ruled == of("rule")
             built == of("build")
         IN
         /\ \A i \in 1..(Len(stmts) - 1) :
              Rank(Kind(stmts[i])) <= Rank(Kind(stmts[i + 1]))
         /\ [i \in 1..Len(assigned) |-> Word(assigned[i], 1)]
              = (IF min_version # NoVersion THEN <<RequiredVersion>>
                 ELSE <<>>)
                  \o C20_SectionNames(<<"path", "command", "flags", "other">>)
         /\ [i \in 1..Len(ruled) |-> Word(ruled[i], Len(RuleLine) + 1)]
              = [i \in 1..Len(rules) |-> rules[i].name]
         /\ [i \in 1..Len(built) |-> Word(built[i], Len(BuildLine) + 1)]
              = [i \in 1..Len(builds) |-> Text(builds[i].outputs[1])]
         /\ Len(of("default")) = (IF defaults # <<>> THEN 1 ELSE 0)
         /\ defaults # <<>> => Kind(stmts[Len(stmts)]) = "default"

\* C20 witness: a file was written that has the watermark, variables of
\* the four sections (two of them in the section other, 'b' declared
\* first), the rules ld and cc declared in that order, two edges and a
\* default.
C20_Witness ==
    /\ last.op = "write_file"
    /\ min_version # NoVersion
    /\ Len(variables["other"]) = 2
    /\ variables["other"][1][1] = <<"b">>
    /\ Len(variables["path"]) = 1
    /\ Len(variables["command"]) = 1
    /\ Len(variables["flags"]) = 1
    /\ Len(rules) = 2
    /\ rules[1].name = LD
    /\ Len(builds) = 2
    /\ defaults # <<>>

----------------------------------------------------------------------------
(* Rule and edge blocks of the emitted file: the specification SpecBlock   *)

MaxBlockBuilds == 1     \* edges declared before the file is written

\* The one-line command ['cc', '-c', '$in', '-o', '$out'].
ScenarioCommand ==
    Commands(<<Line("list", <<Str("cc"), Str("-c"), Str("$in"), Str("-o"),
                              Str("$out")>>)>>, <<>>)

\* rule('cc', ...) with every combination of depfile, deps, generator, pool
\* and restat given or left out.
BlockRuleDecl ==
    /\ Unwritten
    /\ ~HasRule(CC)
    /\ \E depfile \in {NoValue, "$out.d"}, deps \in {NoValue, "gcc"},
          generator \in BOOLEAN, pool \in {NoPool, "console"},
          restat \in BOOLEAN :
         RuleCall(CC, ScenarioCommand, depfile, deps, generator, pool, restat)

\* rule('ld', ...) with a command that needs a shell and no option.
BlockLinkRuleDecl ==
    /\ Unwritten
    /\ ~HasRule(LD)
    /\ RuleCall(LD, ToolCommand, NoValue, NoValue, FALSE, NoPool, FALSE)

\* build(['main.o'], 'cc', inputs=['main.c']), or an edge with inputs of
\* every class and a variable.
BlockBuildDecl ==
    /\ Unwritten
    /\ Len(builds) < MaxBlockBuilds
    /\ \/ BuildCall(List(<<"main.o">>), CC, List(<<"main.c">>), Nothing,
                    Nothing, <<>>)
       \/ LET x == BuildExtras(LD)
          IN BuildCall(Scalar("a.o"), LD, x[1], x[2], x[3], x[4])

NextBlock ==
    \/ BlockRuleDecl
    \/ BlockLinkRuleDecl
    \/ BlockBuildDecl
    \/ EmitWrite

SpecBlock == Init /\ [][NextBlock]_vars

Indented(l) == StartsWith(l, <<" ", " ">>)

\* The last line of the block that starts at line i: the line before the
\* first line after i that is not indented.
RECURSIVE BlockEnd(_, _)
BlockEnd(lines, i) ==
    IF i < Len(lines) /\ Indented(lines[i + 1]) THEN BlockEnd(lines, i + 1)
    ELSE i

\* The indices of the lines that begin with a keyword.
LinesOf(lines, keyword) ==
    SelectSeq([i \in 1..Len(lines) |-> i],
              LAMBDA i : StartsWith(lines[i], keyword))

\* The sub-variables a rule must have, in the fixed order.
C21_Keys(rule) ==
    <<<<"c", "o", "m", "m", "a", "n", "d">>>>
      \o (IF rule.depfile # NoValue
          THEN <<<<"d", "e", "p", "f", "i", "l", "e">>>> ELSE <<>>)
      \o (IF rule.deps # NoValue THEN <<<<"d", "e", "p", "s">>>> ELSE <<>>)
      \o (IF rule.generator
          THEN <<<<"g", "e", "n", "e", "r", "a", "t", "o", "r">>>> ELSE <<>>)
      \o (IF rule.pool # NoPool THEN <<<<"p", "o", "o", "l">>>> ELSE <<>>)
      \o (IF rule.restat
          THEN <<<<"r", "e", "s", "t", "a", "t">>>> ELSE <<>>)

\* C21: in the emitted file the k-th line that begins with 'rule ' is
\* 'rule <name>' of the k-th rule, and the indented lines under it are
\* 'key = value' lines whose keys are command (always), then depfile, deps
\* and pool iff set and generator and restat iff true, in the order
\* command, depfile, deps, generator, pool, restat; the generator and
\* restat lines are 'generator = 1' and 'restat = 1'.
C21_RuleBlock ==
    last.op = "write_file"
      => LET lines == TextLines(stream)
             at == LinesOf(lines, RuleLine)
         IN
         /\ Len(at) = Len(rules)
         /\ \A k \in 1..Len(rules) :
              LET block == SubSeq(lines, at[k] + 1, BlockEnd(lines, at[k]))
                  rule == rules[k].rule
              IN
              /\ lines[at[k]] = RuleLine \o rules[k].name
              /\ [i \in 1..Len(block) |-> Word(block[i], 3)] = C21_Keys(rule)
              /\ \A i \in 1..Len(block) :
                   LET key == Word(block[i], 3) IN
                   /\ StartsWith(block[i],
                                 <<" ", " ">> \o key \o <<" ", "=", " ">>)
                   /\ key \in {<<"g", "e", "n", "e", "r", "a", "t", "o", "r">>,
                               <<"r", "e", "s", "t", "a", "t">>}
                        => block[i]
                             = <<" ", " ">> \o key \o <<" ", "=", " ", "1">>

\* C21 witness: a file was written whose rule cc has a depfile and restat
\* but no deps, no generator flag and no pool.
C21_Witness ==
    /\ last.op = "write_file"
    /\ \E k \in 1..Len(rules) :
         /\ rules[k].name = CC
         /\ rules[k].rule.depfile # NoValue
         /\ rules[k].rule.restat
         /\ rules[k].rule.deps = NoValue
         /\ ~rules[k].rule.generator
         /\ rules[k].rule.pool = NoPool

----------------------------------------------------------------------------
(* The build line of an edge: the specification SpecEdge                   *)

MaxEdgeOutputs == 2     \* outputs of the edge that is declared

\* Names with a space, a colon and a dollar sign.
EdgeNames == {"a b", "c:d", "$x"}

EdgeOutputArgs ==
    {List(xs) : xs \in StringsUpTo(EdgeNames, MaxEdgeOutputs) \ {<<>>}}

\* inputs, implicit or order_only: not given, one name, or two.
EdgeInputArgs == {Nothing, Scalar("a b"), List(<<"c:d", "$x">>)}

EdgeRuleDecl ==
    /\ Unwritten
    /\ ~HasRule(CC)
    /\ RuleCall(CC, PlainCommand, NoValue, NoValue, FALSE, NoPool, FALSE)

\* One edge is declared, on a file with no edge and no registered output.
EdgeBuildDecl ==
    /\ Unwritten
    /\ builds = <<>>
    /\ build_outputs = {}
    /\ \E output \in EdgeOutputArgs, rule \in {CC, Phony},
          inputs \in EdgeInputArgs, implicit \in EdgeInputArgs,
          order_only \in EdgeInputArgs :
         BuildCall(output, rule, inputs, implicit, order_only, <<>>)

NextEdge ==
    \/ EdgeRuleDecl
    \/ EdgeBuildDecl
    \/ EmitWrite

SpecEdge == Init /\ [][NextEdge]_vars

\* The names of a list in the escaping of a position, separated by single
\* spaces.
RECURSIVE JoinEscaped(_, _)
JoinEscaped(items, syntax) ==
    IF items = <<>> THEN <<>>
    ELSE EscapeStr(Text(Head(items)), syntax)
           \o (IF Tail(items) = <<>> THEN <<>>
               ELSE <<" ">> \o JoinEscaped(Tail(items), syntax))

C22_Line(build) ==
    BuildLine \o JoinEscaped(build.outputs, "output") \o <<":", " ">>
      \o build.rule
      \o (IF build.inputs # <<>>
          THEN <<" ">> \o JoinEscaped(build.inputs, "input") ELSE <<>>)
      \o (IF build.implicit # <<>>
          THEN <<" ", "|", " ">> \o JoinEscaped(build.implicit, "input")
          ELSE <<>>)
      \o (IF build.order_only # <<>>
          THEN <<" ", "|", "|", " ">> \o JoinEscaped(build.order_only, "input")
          ELSE <<>>)

\* C22: in the emitted file the k-th line that begins with 'build ' is, for
\* the k-th edge, 'build <outputs>: <rule>', then ' ' and the explicit
\* inputs iff there are any, then ' | ' and the implicit inputs iff there
\* are any, then ' || ' and the order-only inputs iff there are any; the
\* items of a list are separated by single spaces, the outputs are escaped
\* for the output position and every input for the input position, and the
\* line of an edge with no input ends after the rule name.
C22_BuildLine ==
    last.op = "write_file"
      => LET lines == TextLines(stream)
             at == LinesOf(lines, BuildLine)
         IN
         /\ Len(at) = Len(builds)
         /\ \A k \in 1..Len(builds) : lines[at[k]] = C22_Line(builds[k])

\* C22 witness: the written file has an edge of two outputs, one with a
\* space and one with a colon, that has no explicit input, one implicit
\* input and two order-only inputs.
C22_Witness ==
    /\ last.op = "write_file"
    /\ Len(builds) = 1
    /\ builds[1].outputs = <<"a b", "c:d">>
    /\ builds[1].inputs = <<>>
    /\ builds[1].implicit = <<"a b">>
    /\ builds[1].order_only = <<"c:d", "$x">>
    /\ EndsWith(stream,
                <<"b", "u", "i", "l", "d", " ", "a", "$", " ", "b", " ", "c",
                  "$", ":", "d", ":", " ", "p", "h", "o", "n", "y", " ", "|",
                  " ", "a", "$", " ", "b", " ", "|", "|", " ", "c", ":", "d",
                  " ", "$", "$", "x", "\n", "\n">>)

----------------------------------------------------------------------------
(* Default targets: the specification SpecDefault                          *)

MaxDefaultPaths == 2    \* paths given to one default() call
MaxDefaultCalls == 4    \* default() is explored on a list shorter than this

\* default(paths) with a list of no, one or several paths.
DefaultDecl ==
    /\ Unwritten
    /\ Len(defaults) < MaxDefaultCalls
    /\ \E paths \in StringsUpTo({"a.o", "b.o"}, MaxDefaultPaths) :
         DefaultCall(paths)

NextDefault ==
    \/ DefaultDecl
    \/ EmitWrite

SpecDefault == Init /\ [][NextDefault]_vars

\* A default() call appends its paths, in order, to the list.
C23_Appended ==
    last'.op = "default" => defaults' = defaults \o last'.outs

\* The written file has one 'default' line, of all the paths in order, iff
\* the list is not empty, and none otherwise.
C23_OneLine ==
    last.op = "write_file"
      => LET lines == TextLines(stream)
             at == LinesOf(lines, <<"d", "e", "f", "a", "u", "l", "t">>)
         IN IF defaults = <<>> THEN at = <<>>
            ELSE /\ Len(at) = 1
                 /\ lines[at[1]] = DefaultLine \o JoinEscaped(defaults, "input")

\* C23: every default(paths) call leaves the default-target list equal to
\* the list before the call followed by the given paths, duplicates kept,
\* so the list is the concatenation of all the given paths in call order;
\* the emitted file has exactly one 'default' line, listing them all in
\* that order, iff the list is non-empty, and no 'default' line otherwise.
C23_Defaults == [][C23_Appended]_vars /\ []C23_OneLine

\* C23 witness: after default() calls that gave a.o, b.o and a.o again, the
\* file was written with the line 'default a.o b.o a.o'.
C23_Witness ==
    /\ last.op = "write_file"
    /\ defaults = <<"a.o", "b.o", "a.o">>
    /\ EndsWith(stream,
                <<"\n", "d", "e", "f", "a", "u", "l", "t", " ", "a", ".", "o",
                  " ", "b", ".", "o", " ", "a", ".", "o", "\n">>)

\* A file written while the list is empty, as it is after default([])
\* calls only, is the header alone.
C23_EmptyOnly ==
    /\ last.op = "write_file"
    /\ defaults = <<>>
    /\ stream = Header

\* Every block that starts with the keyword is followed by exactly one
\* blank line.
C24_OneBlankAfter(lines, keyword) ==
    \A i \in 1..Len(lines) :
        StartsWith(lines[i], keyword)
          => LET e == BlockEnd(lines, i) IN
             /\ e < Len(lines)
             /\ lines[e + 1] = <<>>
             /\ e + 1 < Len(lines) => lines[e + 2] # <<>>

\* The file has rule 'cc' with the one-line command and no option, and the
\* edge main.o: cc main.c, and nothing else.
C24_Scenario ==
    /\ Len(rules) = 1
    /\ rules[1] = [name |-> CC,
                   rule |-> Rule(StoredCommand(ScenarioCommand), NoValue,
                                 NoValue, FALSE, NoPool, FALSE)]
    /\ Len(builds) = 1
    /\ builds[1] = Build(<<"main.o">>, CC, <<"main.c">>, <<>>, <<>>, <<>>)

\* C24: in the emitted file every rule block and every build-edge block is
\* followed by exactly one blank line; the file with rule 'cc' (one-line
\* command) and edge main.o: cc main.c is, after the header, the line
\* 'rule cc', its 'command =' line, one blank line, the line
\* 'build main.o: cc main.c' and one blank line.
C24_BlankLines ==
    last.op = "write_file"
      => LET lines == TextLines(stream) IN
         /\ C24_OneBlankAfter(lines, RuleLine)
         /\ C24_OneBlankAfter(lines, BuildLine)
         /\ C24_Scenario
              => /\ Len(lines) = Len(TextLines(Header)) + 5
                 /\ SubSeq(lines, Len(lines) - 4, Len(lines))
                      = << <<"r", "u", "l", "e", " ", "c", "c">>,
                           <<" ", " ", "c", "o", "m", "m", "a", "n", "d", " ",
                             "=", " ", "c", "c", " ", "-", "c", " ", "'", "$",
                             "$", "i", "n", "'", " ", "-", "o", " ", "'", "$",
                             "$", "o", "u", "t", "'">>,
                           <<>>,
                           <<"b", "u", "i", "l", "d", " ", "m", "a", "i", "n",
                             ".", "o", ":", " ", "c", "c", " ", "m", "a", "i",
                             "n", ".", "c">>,
                           <<>> >>

\* C24 witness: the file with rule 'cc' and edge main.o: cc main.c was
\* written.
C24_Witness ==
    /\ last.op = "write_file"
    /\ C24_Scenario

----------------------------------------------------------------------------
(* Every declaration, in any order: the specification SpecIR               *)

MaxIRDefaults == 1      \* default() calls before the exploration stops

\* variable('a', '1') with exist_ok true or false.
IRVariableDecl ==
    \E exist_ok \in BOOLEAN :
        VariableCall("variable", <<"a">>, "1", "other", exist_ok)

\* rule('cc', ..., pool='console'), rule('ld', ...), rule('bad name', ...,
\* pool='console') and rule('ld', ..., pool='deep'); a name may be declared
\* again.
IRRuleDecl ==
    \E a \in {<<CC, "console">>, <<LD, NoPool>>, <<BadName, "console">>,
              <<LD, "deep">>} :
        LET x == RuleArgs(a[2])
        IN RuleCall(a[1], x[1], x[2], x[3], x[4], a[2], x[5])

\* build('a.o', 'cc') and build(['b.o', 'a.o'], 'phony'), in any order and
\* any number of times.
IRBuildDecl ==
    \E e \in {<<Scalar("a.o"), CC>>, <<List(<<"b.o", "a.o">>), Phony>>} :
        BuildCall(e[1], e[2], Nothing, Nothing, Nothing, <<>>)

IRDefault ==
    /\ Len(defaults) < MaxIRDefaults
    /\ DefaultCall(<<"a.o">>)

IRMinVersion == MinVersionCall(<<"1", ".", "1", "0">>)

NextIR ==
    \/ IRVariableDecl
    \/ IRRuleDecl
    \/ IRBuildDecl
    \/ IRDefault
    \/ IRMinVersion

SpecIR == Init /\ [][NextIR]_vars

\* xs is ys or a beginning of it.
IsPrefix(xs, ys) == Len(xs) <= Len(ys) /\ SubSeq(ys, 1, Len(xs)) = xs

\* What has_variable, has_rule and has_build report true stays true.
C25_StillReported ==
    /\ \A n \in var_table : n \in var_table'
    /\ \A n \in RuleNames(rules) : n \in RuleNames(rules')
    /\ \A o \in build_outputs : o \in build_outputs'

\* The stored rules and edges keep their content and their position.
C25_OnlyAppended ==
    /\ IsPrefix(rules, rules')
    /\ IsPrefix(builds, builds')

\* C25: in every step of every sequence of variable, rule, build, default
\* and min_version calls, failed ones included, each name for which
\* has_variable, has_rule or has_build is true keeps it true, and the
\* stored rules and edges are a beginning of the stored rules and edges
\* after the step; so after a build() that fails on an overlapping output
\* the outputs of the first edge are still reported by has_build.
C25_WriteOnce == [][C25_StillReported /\ C25_OnlyAppended]_vars

\* C25 witness: build(['b.o', 'a.o'], 'phony') failed on an edge that
\* owns a.o, and has_build('a.o') is still true.
C25_Witness ==
    /\ last.op = "build"
    /\ last.err = "duplicate_output"
    /\ last.outs = <<"b.o", "a.o">>
    /\ Len(builds) = 1
    /\ builds[1].outputs = <<"a.o">>
    /\ HasBuild("a.o")
    /\ Len(rules) = 2

----------------------------------------------------------------------------
(* The value of a variable: the specification SpecValue                    *)

MaxValueLen == 3    \* length of the strings of a value

ValueAlphabet == {"a", " ", "$"}

ValueStrings == StringsUpTo(ValueAlphabet, MaxValueLen)

\* A list value, as a fragment whose bits are its elements.
ListValue(items) == [t |-> "list", s |-> <<>>, bits |-> items, root |-> ""]

\* The value of a variable: a string, or a list of no, one or two strings.
ValueArgs ==
    {PlainStr(s) : s \in ValueStrings}
      \cup {ListValue(<<>>)}
      \cup {ListValue(<<PlainStr(s)>>) : s \in ValueStrings}
      \cup {ListValue(<<PlainStr(s), PlainStr(t)>>) : s, t \in ValueStrings}

\* The value as write_shell sees it: iterable or not.
ValueLine(value) ==
    IF value.t = "list" THEN Line("list", value.bits)
    ELSE Line("str", <<value>>)

\* write() reaches a variable 'v' of a section and calls
\* _write_variable(out, name, value, syntax) with the syntax of the section.
WriteVariableCall ==
    /\ last.op = "init"
    /\ \E section \in SectionSet, value \in ValueArgs :
         /\ stream' = WriteVariable(Var(<<"v">>),
                                    WriteShell(ValueLine(value),
                                               SectionSyntax(section)).out, 0)
         /\ last' = [NoCall EXCEPT !.op = "write_variable",
                                   !.name = Var(<<"v">>),
                                   !.section = section, !.thing = value]
    /\ UNCHANGED <<min_version, var_table, variables, rules, builds,
                   build_outputs, defaults, obj, requested>>

NextValue == WriteVariableCall

SpecValue == Init /\ [][NextValue]_vars

\* A string with every '$' doubled.
C26_Dollars(s) ==
    Flatten([i \in 1..Len(s) |->
                IF s[i] = "$" THEN <<"$", "$">> ELSE <<s[i]>>])

\* A string in single quotes when it has a character outside the
\* shell-safe set (the strings here have no quote character).
C26_Quoted(s) == IF BadCharsSearch(s) THEN <<"'">> \o s \o <<"'">> ELSE s

\* The elements of a list, each quoted or not, separated by single spaces.
RECURSIVE C26_Items(_, _)
C26_Items(bits, quoting) ==
    IF bits = <<>> THEN <<>>
    ELSE C26_Dollars(IF quoting THEN C26_Quoted(Head(bits).s)
                     ELSE Head(bits).s)
           \o (IF Tail(bits) = <<>> THEN <<>>
               ELSE <<" ">> \o C26_Items(Tail(bits), quoting))

C26_LineOf(text) == <<"v", " ", "=", " ">> \o text \o <<"\n">>

\* C26 as stated: in the sections command, flags and other a scalar string
\* and each element of a list is shell-quoted when it has a character
\* outside the shell-safe set, and in the section path nothing is.
C26_AsStated ==
    last.op = "write_variable"
      => LET value == last.thing
             quoting == last.section # "path"
         IN stream = C26_LineOf(
                IF value.t = "list" THEN C26_Items(value.bits, quoting)
                ELSE C26_Items(<<value>>, quoting))

\* C26: in the sections command, flags and other each element of a list
\* value that has a character outside the shell-safe set is shell-quoted,
\* and the elements are separated by single spaces; a scalar string value
\* is never shell-quoted, in any section; in the section path no value is
\* shell-quoted; in every section each '$' of the value is doubled.
C26_ValueRendering ==
    last.op = "write_variable"
      => LET value == last.thing
             quoting == last.section # "path"
         IN stream = C26_LineOf(
                IF value.t = "list" THEN C26_Items(value.bits, quoting)
                ELSE C26_Dollars(value.s))

\* C26 witness: the list ['a a', '$a'] was written in the section flags as
\* v = 'a a' '$$a'
C26_Witness ==
    /\ last.op = "write_variable"
    /\ last.section = "flags"
    /\ last.thing = ListValue(<<PlainStr(<<"a", " ", "a">>),
                                PlainStr(<<"$", "a">>)>>)
    /\ stream = <<"v", " ", "=", " ", "'", "a", " ", "a", "'", " ", "'", "$",
                  "$", "a", "'", "\n">>

----------------------------------------------------------------------------
(* The variable table and the section lists (in the specification SpecVar) *)

\* Every <<section, index>> at which the name is stored.
C27_Places(name) ==
    {e \in UNION {{<<s, i>> : i \in 1..Len(variables[s])} : s \in SectionSet} :
        variables[e[1]][e[2]][1] = name}

\* The names stored in the lists of the four sections.
C27_StoredNames ==
    UNION {{variables[s][i][1] : i \in 1..Len(variables[s])} :
              s \in SectionSet}

\* C27: in every reachable state the interned variable table equals the
\* set of names stored across the four section lists, and each of these
\* names is stored in exactly one section, exactly once, whatever
\* variable() and cmd_var() calls were made, successful or failed.
C27_TableMatchesLists ==
    /\ var_table = C27_StoredNames
    /\ \A name \in var_table : Cardinality(C27_Places(name)) = 1

\* C27 witness: variable('a-b', ..., exist_ok=False) failed on a file that
\* holds a_b and the command variable cc, in different sections.
C27_Witness ==
    /\ last.op = "variable"
    /\ last.err = "variable_exists"
    /\ last.name = ADashB
    /\ var_table = {AUnderB, CC}
    /\ Len(variables["command"]) = 1

----------------------------------------------------------------------------
(* A rule() call that raises (in the specification SpecRule)               *)

\* C28: a rule() call that raises, for an invalid rule name, a duplicate
\* rule name or an unknown pool, leaves the rule table, the variable table,
\* the section lists and the minimum-version watermark as they were before
\* the call.
C28_FailedRuleIsAtomic ==
    [][(last'.op = "rule" /\ last'.err # "")
         => UNCHANGED <<rules, var_table, variables, min_version>>]_vars

====
